---- MODULE Spec2Model ----
(***************************************************************************)
(* Model of the cron-driven collection pipeline of the repository:         *)
(*   run_collector.py            main: lock file, set-up, exit code        *)
(*   src/data_collector.py       DataCollector: per-source fetch and store *)
(*   src/database.py             MongoDBClient: insert_articles,           *)
(*                               insert_price_data                         *)
(*                                                                         *)
(* Three specifications share the definitions below:                       *)
(*   Spec         concurrent invocations of run_collector.main around the  *)
(*                lock file and the wall clock;                            *)
(*   SpecCollect  one collector run after the other against the database;  *)
(*   SpecStore    clients calling the store operations, interleaved at     *)
(*                the level of single database commands.                   *)
(***************************************************************************)
EXTENDS Integers, Sequences, FiniteSets, TLC

(***************************************************************************)
(* Bounds of the model and constants of the program.                       *)
(***************************************************************************)
\* number of invocations of run_collector.main the scheduler starts
NumProcs == 2
\* the wall clock advances in steps of TickSeconds, MaxTicks times at most
MaxTicks == 4
TickSeconds == 900
\* run_collector.py:33, the age below which a lock file counts as held
STALE_SECONDS == 1800
\* "articles_per_query" of the configuration file setup_crontab.py writes; the
\* collector reads it as config.ARTICLES_PER_QUERY (data_collector.py:71)
ARTICLES_PER_QUERY == 2

Procs == 1..NumProcs
MaxTime == MaxTicks * TickSeconds
NoProc == 0
NoCode == -1

Min(a, b) == IF a < b THEN a ELSE b

(***************************************************************************)
(* Python dicts keep insertion order: a dict is a sequence of [k, v].      *)
(***************************************************************************)
DictHas(d, key) == \E i \in 1..Len(d) : d[i].k = key

DictGet(d, key) == d[CHOOSE i \in 1..Len(d) : d[i].k = key].v

DictSet(d, key, val) ==
  IF DictHas(d, key)
  THEN [i \in 1..Len(d) |-> IF d[i].k = key THEN [k |-> key, v |-> val] ELSE d[i]]
  ELSE Append(d, [k |-> key, v |-> val])

DictKeys(d) == {d[i].k : i \in 1..Len(d)}

RECURSIVE SumValues(_)
SumValues(d) == IF d = <<>> THEN 0 ELSE Head(d).v + SumValues(Tail(d))

(***************************************************************************)
(* config.DEFAULT_CONFIG (src/config.py:38-66).                            *)
(***************************************************************************)
NEWS_QUERIES ==
  << [name |-> "Global Economy",
      query |-> "global economy OR economic outlook OR financial markets",
      collection |-> "global_economy_articles"] >>

CRYPTO ==
  << [name |-> "Bitcoin", symbol |-> "BTC-USD", collection |-> "bitcoin_price",
      query |-> "bitcoin OR btc", news_collection |-> "bitcoin_articles"] >>

INDICES ==
  << [name |-> "S&P 500", symbol |-> "^GSPC", collection |-> "sp500"] >>

NewsNames == {NEWS_QUERIES[i].name : i \in 1..Len(NEWS_QUERIES)}
             \cup {CRYPTO[i].name : i \in 1..Len(CRYPTO)}
PriceNames == {CRYPTO[i].name : i \in 1..Len(CRYPTO)}
              \cup {INDICES[i].name : i \in 1..Len(INDICES)}

VARIABLES
  config_attrs,           \* whether the imported config module defines
                          \* DEFAULT_DELAY_HOURS and ARTICLES_PER_QUERY
  now,                    \* the wall clock, in seconds
  lock,                   \* data_collection.lock: exists, mtime, who wrote it
  pc,                     \* where each invocation of main is
  results,                \* what collect_and_store_all_data returned
  success,                \* main's local of that name
  exit_code,              \* the process's exit status, NoCode while it runs
  warned,                 \* which lock warning main printed (lines 34, 38)
  outcome,                \* what the sources did in this run
  io,                     \* whether the invocation called a fetch or a save
  db,                     \* the collections: name -> documents in insertion order
  inserted_count,         \* what the last insert_articles call returned
  price_call,             \* each client's insert_price_data call in progress
  price_ret,              \* what each client's last insert_price_data returned
  calls,                  \* insert_price_data calls made so far
  crun,                   \* runs of collect_and_store_all_data started so far
  cpc,                    \* the loop iteration the current run is at
  cresults,               \* its local `results`
  clog,                   \* what each iteration of the current run did
  utcnow,                 \* datetime.utcnow() of the store, as an instant
  pass,                   \* each scoring pass: where it is, what it still scores
  last,                   \* the last call of the store: which, and its return
  pending,                \* an insert_articles call about to be made
  cls_instance,           \* MongoDBClient._instance: None, or the object
  objects,                \* MongoDBClient objects allocated so far
  initialize_runs,        \* runs of MongoDBClient._initialize so far
  constructions,          \* each MongoDBClient() so far: who, what it got
  snake,                  \* Snake_claude.main's local `snake`
  food,                   \* its local `food` (the food's position)
  game_over,              \* its local `game_over`
  running,                \* its local `running`; "no" before main starts
  frame,                  \* iterations of the game loop so far
  moved,                  \* the directions the snake's last two move steps used
  backlog,                \* the unscored articles of a collection, by age
  scan                    \* a scoring pass over them: what it read and has left

mainVars == <<now, lock, pc, results, success, exit_code, warned, outcome, io>>
scoreVars == <<utcnow, pass, last, pending>>
storeVars == <<inserted_count, price_call, price_ret, calls, scoreVars>>
collectVars == <<crun, cpc, cresults, clog>>
singletonVars == <<cls_instance, objects, initialize_runs, constructions>>
snakeVars == <<snake, food, game_over, running, frame, moved>>
backlogVars == <<backlog, scan>>
auxVars == <<singletonVars, snakeVars, backlogVars>>
vars == <<config_attrs, mainVars, db, storeVars, collectVars, singletonVars,
          snakeVars, backlogVars>>

NoLock == [exists |-> FALSE, mtime |-> 0, owner |-> NoProc]
NoResults == [news_articles |-> <<>>, price_data |-> <<>>]
NoLast == [op |-> "none"]
NoPending == [op |-> "none"]
NoInstance == 0
NoSnake == [direction |-> <<0, 0>>, positions |-> <<>>, grow |-> FALSE,
            score |-> 0]
NoFood == <<-1, -1>>
NoDirection == <<0, 0>>
NoBacklog == [watched |-> "absent", newer |-> 0]
NoScan == [pc |-> "idle", newer |-> 0, watched |-> FALSE]
\* scoring passes (invocations of analyze_and_store_all_sentiments)
NumAnalyzers == 2
Analyzers == 1..NumAnalyzers
NoPass == [pc |-> "idle", todo |-> <<>>]
NoEnv == [news |-> <<>>, crypto_news |-> <<>>, crypto_price |-> <<>>,
          indices |-> <<>>]

(***************************************************************************)
(* Values handed around by the collector.  An article is the fields of a   *)
(* NewsAPI record the code reads; publishedAt is the rank of the timestamp *)
(* string in string order.  Optional values are [some |-> FALSE] (None) or *)
(* [some |-> TRUE, val |-> x].                                             *)
(***************************************************************************)
None == [some |-> FALSE]
Some(x) == [some |-> TRUE, val |-> x]

Raise == [kind |-> "raise"]
ApiError == [kind |-> "error"]
ApiOk(articles) == [kind |-> "ok", articles |-> articles]
Call(ret) == [kind |-> "call", ret |-> ret]

\* the longest response of the news API the model draws
MaxResponse == 3

ARTICLE0 == [title |-> "t1", source |-> "s1", publishedAt |-> 1]

(***************************************************************************)
(* DataCollector.collect_news_for_query, data_collector.py:66-71: newest   *)
(* first (list.sort is stable, also with reverse=True), then the first     *)
(* ARTICLES_PER_QUERY.                                                     *)
(***************************************************************************)
RECURSIVE InsertByDate(_, _)
InsertByDate(sorted, a) ==
  IF sorted = <<>> THEN <<a>>
  ELSE IF Head(sorted).publishedAt >= a.publishedAt
       THEN <<Head(sorted)>> \o InsertByDate(Tail(sorted), a)
       ELSE <<a>> \o sorted

RECURSIVE SortNewestFirst(_)
SortNewestFirst(articles) ==
  IF articles = <<>> THEN <<>>
  ELSE InsertByDate(SortNewestFirst(SubSeq(articles, 1, Len(articles) - 1)),
                    articles[Len(articles)])

ArticlesToStore(articles) ==
  SubSeq(SortNewestFirst(articles), 1, Min(Len(articles), ARTICLES_PER_QUERY))

(***************************************************************************)
(* What collect_news_for_query returns (data_collector.py:39-84) for an    *)
(* outcome of the API call: the exception handler returns [] for a failed  *)
(* call and for the AttributeError of config.ARTICLES_PER_QUERY.           *)
(***************************************************************************)
NewsReturn(attrs, api) ==
  IF api.kind = "error" \/ ~attrs THEN <<>> ELSE ArticlesToStore(api.articles)

(***************************************************************************)
(* DataCollector.collect_and_store_all_data, one loop body each.  `out` is *)
(* Raise when the body raises outside the collect_* call, else Call(ret)   *)
(* with what the call returned.  The default argument                      *)
(* config.DEFAULT_DELAY_HOURS of every .get("delay_hours", ...) is         *)
(* evaluated first and raises AttributeError when the module lacks it.     *)
(***************************************************************************)
NewsQueryStep(attrs, res, news_config, out) ==
  IF ~attrs \/ out.kind = "raise"
  THEN [res EXCEPT !.news_articles = DictSet(@, news_config.name, 0)]
  ELSE [res EXCEPT !.news_articles = DictSet(@, news_config.name, Len(out.ret))]

\* data_collector.py:230-234, the except clause of the crypto loop
CryptoExcept(res, crypto) ==
  [news_articles |-> IF DictHas(res.news_articles, crypto.name)
                     THEN res.news_articles
                     ELSE DictSet(res.news_articles, crypto.name, 0),
   price_data |-> DictSet(res.price_data, crypto.name, FALSE)]

\* data_collector.py:212-222, up to the news count
CryptoNewsStep(attrs, res, crypto, outNews) ==
  IF ~attrs \/ outNews.kind = "raise"
  THEN CryptoExcept(res, crypto)
  ELSE [res EXCEPT !.news_articles = DictSet(@, crypto.name, Len(outNews.ret))]

\* data_collector.py:224-229, the price flag
CryptoPriceStep(attrs, res, crypto, outPrice) ==
  IF outPrice.kind = "raise"
  THEN CryptoExcept(res, crypto)
  ELSE [res EXCEPT !.price_data = DictSet(@, crypto.name, outPrice.ret.some)]

CryptoStep(attrs, res, crypto, outNews, outPrice) ==
  IF ~attrs \/ outNews.kind = "raise"
  THEN CryptoNewsStep(attrs, res, crypto, outNews)
  ELSE CryptoPriceStep(attrs, CryptoNewsStep(attrs, res, crypto, outNews),
                       crypto, outPrice)

IndexStep(attrs, res, index, out) ==
  IF ~attrs \/ out.kind = "raise"
  THEN [res EXCEPT !.price_data = DictSet(@, index.name, FALSE)]
  ELSE [res EXCEPT !.price_data = DictSet(@, index.name, out.ret.some)]

RECURSIVE NewsLoop(_, _, _, _)
NewsLoop(attrs, res, i, env) ==
  IF i > Len(NEWS_QUERIES) THEN res
  ELSE NewsLoop(attrs, NewsQueryStep(attrs, res, NEWS_QUERIES[i], env.news[i]),
                i + 1, env)

RECURSIVE CryptoLoop(_, _, _, _)
CryptoLoop(attrs, res, i, env) ==
  IF i > Len(CRYPTO) THEN res
  ELSE CryptoLoop(attrs,
                  CryptoStep(attrs, res, CRYPTO[i], env.crypto_news[i],
                             env.crypto_price[i]),
                  i + 1, env)

RECURSIVE IndexLoop(_, _, _, _)
IndexLoop(attrs, res, i, env) ==
  IF i > Len(INDICES) THEN res
  ELSE IndexLoop(attrs, IndexStep(attrs, res, INDICES[i], env.indices[i]),
                 i + 1, env)

collect_and_store_all_data(attrs, env) ==
  IndexLoop(attrs, CryptoLoop(attrs, NewsLoop(attrs, NoResults, 1, env), 1, env),
            1, env)

\* whether the run reached a fetch or a save at all
CallsMade(attrs, env) ==
  /\ attrs
  /\ \/ \E i \in 1..Len(NEWS_QUERIES) : env.news[i].kind = "call"
     \/ \E i \in 1..Len(CRYPTO) : env.crypto_news[i].kind = "call"
     \/ \E i \in 1..Len(INDICES) : env.indices[i].kind = "call"

(***************************************************************************)
(* The outcomes the clock-and-lock specification draws for one run: the    *)
(* result map depends on the length of what the news call returned and on  *)
(* whether the price call returned a price point, on nothing else.         *)
(***************************************************************************)
NewsApiOutcomes ==
  {ApiError} \cup {ApiOk([i \in 1..n |-> ARTICLE0]) : n \in 0..MaxResponse}

NewsOuts(attrs) == {Raise} \cup {Call(NewsReturn(attrs, api)) : api \in NewsApiOutcomes}

PRICE0 == [symbol |-> "BTC-USD", timestamp |-> 0]

PriceOuts == {Raise, Call(None), Call(Some(PRICE0))}

Envs(attrs) ==
  [news : [1..Len(NEWS_QUERIES) -> NewsOuts(attrs)],
   crypto_news : [1..Len(CRYPTO) -> NewsOuts(attrs)],
   crypto_price : [1..Len(CRYPTO) -> PriceOuts],
   indices : [1..Len(INDICES) -> PriceOuts]]

(***************************************************************************)
(* MongoDBClient (src/database.py).  A collection is the sequence of its   *)
(* documents in insertion order; a document's place is its _id.            *)
(***************************************************************************)
ARTICLE_COLLECTIONS == {"global_economy_articles", "bitcoin_articles"}
PRICE_COLLECTIONS == {"bitcoin_price", "sp500"}
Collections == ARTICLE_COLLECTIONS \cup PRICE_COLLECTIONS

\* article["source"]["name"] of an article without a source or a source name
NoSourceName == "None"

\* the articles the news API may return: two titles, a named and an unnamed
\* source, and one article republished with a later date
Articles ==
  {[title |-> "t1", source |-> "s1", publishedAt |-> 1],
   [title |-> "t1", source |-> "s1", publishedAt |-> 2],
   [title |-> "t2", source |-> "s1", publishedAt |-> 1],
   [title |-> "t1", source |-> NoSourceName, publishedAt |-> 1]}

\* the longest batch handed to insert_articles by a client of the store
MaxBatch == 2

RECURSIVE SeqsUpTo(_, _)
SeqsUpTo(S, n) ==
  IF n = 0 THEN {<<>>}
  ELSE LET shorter == SeqsUpTo(S, n - 1)
       IN  shorter \cup {Append(q, x) : q \in {r \in shorter : Len(r) = n - 1}, x \in S}

\* database.py:139-179, the document built from an article
ArticleDoc(article) ==
  [title |-> article.title, source |-> article.source,
   published_at |-> article.publishedAt]

\* database.py:188-191, the filter {"title": ..., "source.name": ...}
MatchesFilter(doc, article) ==
  doc.title = article.title /\ doc.source = article.source

\* an upsert that inserts without looking for a match
UpsertAlways(coll, article) ==
  [coll |-> Append(coll, ArticleDoc(article)), upserted |-> 1]

\* database.py:194-199, UpdateOne(filter, {"$setOnInsert": article}, upsert=True)
UpsertIfAbsent(coll, article) ==
  IF \E i \in 1..Len(coll) : MatchesFilter(coll[i], article)
  THEN [coll |-> coll, upserted |-> 0]
  ELSE [coll |-> Append(coll, ArticleDoc(article)), upserted |-> 1]

\* database.py:204-205, the ordered bulk_write of the first n operations
RECURSIVE BulkWrite(_, _, _)
BulkWrite(coll, articles, n) ==
  IF n = 0 THEN [coll |-> coll, upserted |-> 0]
  ELSE LET before == BulkWrite(coll, articles, n - 1)
           this == UpsertIfAbsent(before.coll, articles[n])
       IN  [coll |-> this.coll, upserted |-> before.upserted + this.upserted]

\* database.py:123-212; failed_at = 0: no PyMongoError, failed_at = k: the
\* k-th operation of the bulk write raised, the earlier ones are applied
insert_articles(coll, articles, failed_at) ==
  IF articles = <<>> THEN [coll |-> coll, ret |-> 0]
  ELSE IF failed_at > 0
       THEN [coll |-> BulkWrite(coll, articles, failed_at - 1).coll, ret |-> 0]
       ELSE LET done == BulkWrite(coll, articles, Len(articles))
            IN  [coll |-> done.coll, ret |-> done.upserted]


(***************************************************************************)
(* The article record (database.py:139-179).  An instant is a point of     *)
(* UTC time.  The publishedAt of a NewsAPI article is absent, null (any    *)
(* value that is no string), or a string: ISO 8601 ending in Z, ISO 8601   *)
(* with T and a numeric offset, ISO 8601 with T and no zone, the form      *)
(* 'YYYY-MM-DD HH:MM:SS', or a string in none of these forms.              *)
(***************************************************************************)
MaxInstant == 2
Instants == 0..MaxInstant

Absent == [kind |-> "absent"]
Null == [kind |-> "null"]
Str(form, t) == [kind |-> "str", form |-> form, t |-> t]
WellFormed == {"Z", "offset", "T", "plain"}
PublishedAtValues ==
  {Absent, Null, Str("bad", 0)} \cup {Str(f, t) : f \in WellFormed, t \in Instants}

\* a stored field value: a datetime, or null
Time(t) == [kind |-> "time", t |-> t]

\* database.py:147-160: datetime.fromisoformat / datetime.strptime.  A string
\* with Z (replaced by +00:00) or with an offset parses to an aware datetime,
\* the other two forms to a naive one; anything else raises ValueError.
ParseDate(s) ==
  IF s.form = "bad" THEN [kind |-> "raise"]
  ELSE [kind |-> "ok", aware |-> s.form \in {"Z", "offset"}, t |-> s.t]

\* database.py:163: stored_at (datetime.utcnow(), naive) minus published_at
\* raises TypeError when published_at is aware
TimeDiffRaises(d) == d.aware

\* database.py:144-179: published_at of the record
PublishedAtOf(publishedAt, stored_at) ==
  IF publishedAt.kind = "str"
  THEN LET d == ParseDate(publishedAt) IN
       IF d.kind = "raise" THEN Time(stored_at)         \* line 170-172
       ELSE IF TimeDiffRaises(d) THEN Time(stored_at)   \* line 170-172
       ELSE Time(d.t)
  ELSE IF publishedAt.kind = "null"
       THEN Null                                        \* line 176-177
       ELSE Time(stored_at)                             \* line 179

\* the record $setOnInsert writes for an article at the instant stored_at
RecordOf(article, stored_at) ==
  [title |-> article.title, source |-> article.source,
   published_at |-> PublishedAtOf(article.publishedAt, stored_at),
   stored_at |-> stored_at,
   sentiment |-> None, sentiment_updated_at |-> None]

\* an upsert with $set in place of $setOnInsert
UpsertOverwrite(coll, rec) ==
  IF \E i \in 1..Len(coll) : MatchesFilter(coll[i], rec)
  THEN [coll |-> [i \in 1..Len(coll) |->
                    IF MatchesFilter(coll[i], rec)
                    THEN [coll[i] EXCEPT !.published_at = rec.published_at,
                                         !.stored_at = rec.stored_at]
                    ELSE coll[i]],
        upserted |-> 0]
  ELSE [coll |-> Append(coll, rec), upserted |-> 1]

\* database.py:186-200: UpdateOne(filter, {"$setOnInsert": article}, upsert=True)
UpsertRecord(coll, rec) ==
  IF \E i \in 1..Len(coll) : MatchesFilter(coll[i], rec)
  THEN [coll |-> coll, upserted |-> 0]
  ELSE [coll |-> Append(coll, rec), upserted |-> 1]

\* database.py:204-205 on records
RECURSIVE BulkWriteRecords(_, _, _)
BulkWriteRecords(coll, recs, n) ==
  IF n = 0 THEN [coll |-> coll, upserted |-> 0]
  ELSE LET before == BulkWriteRecords(coll, recs, n - 1)
           this == UpsertRecord(before.coll, recs[n])
       IN  [coll |-> this.coll, upserted |-> before.upserted + this.upserted]

\* database.py:123-212 with the records in full; failed_at as in insert_articles
InsertArticleRecords(coll, articles, stored_at, failed_at) ==
  LET recs == [i \in 1..Len(articles) |-> RecordOf(articles[i], stored_at)] IN
  IF articles = <<>> THEN [coll |-> coll, ret |-> 0]
  ELSE IF failed_at > 0
       THEN [coll |-> BulkWriteRecords(coll, recs, failed_at - 1).coll, ret |-> 0]
       ELSE LET done == BulkWriteRecords(coll, recs, Len(recs))
            IN  [coll |-> done.coll, ret |-> done.upserted]

(***************************************************************************)
(* Sentiment (database.py:264-299, 344-364; sentiment_analyzer.py).  The   *)
(* _id of a record is its place in the collection.  An article_id is an    *)
(* ObjectId or a string, which is or is not the hex form of an ObjectId.   *)
(***************************************************************************)
Oid(n) == [kind |-> "oid", n |-> n]
StrId(hex, n) == [kind |-> "str", hex |-> hex, n |-> n]

\* Scores are counted in sixtieths (60 stands for 1.0), so that the mean of
\* up to four of the sentence scores drawn below is a whole number.
\* sentiment_analyzer.py:150, the threshold 0.4
NEGATIVE_BELOW == 24
\* sentiment_analyzer.py:152, the threshold 0.6
POSITIVE_ABOVE == 36
\* sentiment_analyzer.py:96, 104, 143, the score 0.5
NEUTRAL_SCORE == 30

\* the thresholds taken as part of the outer ranges
LabelInclusive(avg_score) ==
  IF avg_score <= NEGATIVE_BELOW THEN "negative"
  ELSE IF avg_score >= POSITIVE_ABOVE THEN "positive"
  ELSE "neutral"

\* sentiment_analyzer.py:149-155
Label(avg_score) ==
  IF avg_score < NEGATIVE_BELOW THEN "negative"
  ELSE IF avg_score > POSITIVE_ABOVE THEN "positive"
  ELSE "neutral"

\* sentiment_analyzer.py:94-98, 141-145: the answer when no sentence was
\* scored
NEUTRAL == [score |-> NEUTRAL_SCORE, label |-> "neutral"]

\* sentiment_analyzer.py:111-138, the loop over the sentences: a sentence
\* shorter than 5 characters is skipped, and so is one the model raises on
RECURSIVE SentenceScores(_)
SentenceScores(sentences) ==
  IF sentences = <<>> THEN <<>>
  ELSE LET sentence == Head(sentences)
           rest == SentenceScores(Tail(sentences))
       IN  IF sentence.chars < 5 THEN rest
           ELSE IF sentence.out.kind = "raise" THEN rest
           ELSE <<sentence.out.ret>> \o rest

\* sentiment_analyzer.py:147, sum(scores)
RECURSIVE SumScores(_)
SumScores(scores) ==
  IF scores = <<>> THEN 0 ELSE Head(scores) + SumScores(Tail(scores))

\* sentiment_analyzer.py:85-160.  A text is its length, whether it is white
\* space only (_preprocess_text, 68-83, then returns ""), and its sentences:
\* the length of each and what the FinBERT model gives for it.
analyze_sentiment_finbert(text) ==
  IF text.chars < 10 THEN NEUTRAL
  ELSE IF text.blank THEN NEUTRAL
  ELSE LET scores == SentenceScores(text.sentences)
       IN  IF scores = <<>> THEN NEUTRAL
           ELSE LET avg_score == SumScores(scores) \div Len(scores)
                IN  [score |-> avg_score, label |-> Label(avg_score)]

\* sentiment_analyzer.py:175-179: the text analyze_article makes of an article.
\* Titles are one sentence; the model scores "t1" 0.7 and any other title 0.5,
\* unless it raises on the sentence.
FullText(title, sentence_failed) ==
  [chars |-> 10, blank |-> FALSE,
   sentences |-> <<[chars |-> 5,
                    out |-> IF sentence_failed THEN Raise
                            ELSE Call(IF title = "t1" THEN 42 ELSE 30)]>>]

\* sentiment_analyzer.py:175-182: the sentiment analyze_article gives an
\* article whose sentence the model scores
SentimentOf(title) == analyze_sentiment_finbert(FullText(title, FALSE))

\* an update that also refreshes stored_at
UpdateAndTouch(coll, n, sentiment, t) ==
  [i \in 1..Len(coll) |->
     IF i = n THEN [coll[i] EXCEPT !.sentiment = Some(sentiment),
                                   !.sentiment_updated_at = Some(t),
                                   !.stored_at = t]
     ELSE coll[i]]

\* database.py:282-288: update_one({"_id": id}, {"$set": {sentiment,
\* sentiment_updated_at}}) on a collection that has a record n
UpdateOneSentiment(coll, n, sentiment, t) ==
  [i \in 1..Len(coll) |->
     IF i = n THEN [coll[i] EXCEPT !.sentiment = Some(sentiment),
                                   !.sentiment_updated_at = Some(t)]
     ELSE coll[i]]

\* database.py:264-299.  ObjectId(article_id) raises bson.errors.InvalidId,
\* which is no PyMongoError, for a string that is no ObjectId in hex.
update_article_sentiment(coll, article_id, sentiment, t, failed) ==
  IF article_id.kind = "str" /\ ~article_id.hex
  THEN [coll |-> coll, out |-> Raise]
  ELSE IF failed THEN [coll |-> coll, out |-> Call(FALSE)]
  ELSE IF article_id.n \in 1..Len(coll)
       THEN [coll |-> UpdateOneSentiment(coll, article_id.n, sentiment, t),
             out |-> Call(TRUE)]
       ELSE [coll |-> coll, out |-> Call(FALSE)]

\* the sort key of published_at: null sorts below every date
PublishedRank(rec) ==
  IF rec.published_at.kind = "null" THEN -1 ELSE rec.published_at.t

\* .sort("published_at", DESCENDING) over the records `ids` of coll
RECURSIVE NewestFirst(_, _)
NewestFirst(coll, ids) ==
  IF ids = {} THEN <<>>
  ELSE LET top == CHOOSE i \in ids :
                    \A j \in ids :
                      \/ PublishedRank(coll[i]) > PublishedRank(coll[j])
                      \/ PublishedRank(coll[i]) = PublishedRank(coll[j]) /\ i <= j
       IN  <<top>> \o NewestFirst(coll, ids \ {top})

\* database.py:344-364: find({"sentiment": {"$exists": False}})
\* .sort(...).limit(limit); [] on a PyMongoError
get_articles_without_sentiment(coll, limit, failed) ==
  IF failed THEN <<>>
  ELSE LET found == NewestFirst(coll, {i \in 1..Len(coll) : ~coll[i].sentiment.some})
       IN  SubSeq(found, 1, Min(limit, Len(found)))

(***************************************************************************)
(* insert_price_data (database.py:214-262): find_one and insert_one are    *)
(* two commands; other clients' commands may run between them.             *)
(***************************************************************************)
NumClients == 2
MaxCalls == 3
MaxStamp == 2
Clients == 1..NumClients
Symbols == {"BTC-USD", "^GSPC"}
PricePoints == [symbol : Symbols, timestamp : 1..MaxStamp]
NoPriceCall == [pc |-> "idle"]

\* a find_one that matches on the symbol alone
FindOnePriceBySymbol(coll, price_data) ==
  \E i \in 1..Len(coll) : coll[i].symbol = price_data.symbol

\* database.py:245-248
FindOnePrice(coll, price_data) ==
  \E i \in 1..Len(coll) :
    coll[i].symbol = price_data.symbol /\ coll[i].timestamp = price_data.timestamp

\* database.py:255
InsertOnePrice(coll, price_data) == Append(coll, price_data)

\* the whole call, for a caller no other client interleaves with; failed names
\* the command that raised PyMongoError: "none", "find_one" or "insert_one"
insert_price_data(coll, price_data, failed) ==
  IF failed = "find_one" THEN [coll |-> coll, ret |-> FALSE]
  ELSE IF FindOnePrice(coll, price_data) THEN [coll |-> coll, ret |-> TRUE]
  ELSE IF failed = "insert_one" THEN [coll |-> coll, ret |-> FALSE]
  ELSE [coll |-> InsertOnePrice(coll, price_data), ret |-> TRUE]

(***************************************************************************)
(* run_collector.main.                                                     *)
(***************************************************************************)
\* the comparison with the bound included
LockIsFreshInclusive(start, mtime) == start - mtime <= STALE_SECONDS

\* the comparison turned round
LockIsFreshInverted(start, mtime) == start - mtime > STALE_SECONDS

\* run_collector.py:33
LockIsFresh(start, mtime) == start - mtime < STALE_SECONDS

\* run_collector.py:72-76
AnyData(res) ==
  \/ SumValues(res.news_articles) > 0
  \/ \E i \in 1..Len(res.price_data) : res.price_data[i].v

\* success taken from price_total (line 74) instead of price_count
SuccessFromPriceTotal(res) == AnyData(res) \/ Len(res.price_data) > 0

\* run_collector.py:76-83: the logging loop `for name, success in ...items()`
\* rebinds main's `success` to each price flag in turn
SuccessAfterLogging(res) ==
  IF res.price_data = <<>> THEN AnyData(res)
  ELSE res.price_data[Len(res.price_data)].v

\* a main that ends without an exit status when nothing was collected
ExitCodeOnSuccessOnly(raised, ok) == IF ~raised /\ ok THEN 0 ELSE NoCode

\* run_collector.py:86-99: sys.exit(1) in the except clause and when success
\* is False, else the end of the script
ExitCode(raised, ok) == IF raised THEN 1 ELSE IF ok THEN 0 ELSE 1

\* run_collector.py:92-93
RemoveLock(l) == IF l.exists THEN NoLock ELSE l

Init ==
  /\ config_attrs \in BOOLEAN
  /\ now = 0
  /\ lock = NoLock
  /\ pc = [p \in Procs |-> "idle"]
  /\ results = [p \in Procs |-> NoResults]
  /\ success = [p \in Procs |-> FALSE]
  /\ exit_code = [p \in Procs |-> NoCode]
  /\ warned = [p \in Procs |-> "none"]
  /\ outcome = [p \in Procs |-> NoEnv]
  /\ io = [p \in Procs |-> FALSE]
  /\ db = [c \in Collections |-> <<>>]
  /\ inserted_count = 0
  /\ price_call = [c \in Clients |-> NoPriceCall]
  /\ price_ret = [c \in Clients |-> "none"]
  /\ calls = 0
  /\ crun = 0
  /\ cpc = 0
  /\ cresults = NoResults
  /\ clog = <<>>
  /\ utcnow = 0
  /\ pass = [a \in Analyzers |-> NoPass]
  /\ last = NoLast
  /\ cls_instance = NoInstance
  /\ objects = 0
  /\ initialize_runs = 0
  /\ constructions = <<>>
  /\ snake = NoSnake
  /\ food = NoFood
  /\ game_over = FALSE
  /\ running = "no"
  /\ frame = 0
  /\ moved = <<NoDirection, NoDirection>>
  /\ backlog = NoBacklog
  /\ scan = NoScan
  /\ pending = NoPending

\* the lock check moved inside the try statement, so that the finally
\* clause runs on the early exit too
CheckLockInsideTry(p) ==
  /\ pc[p] = "idle"
  /\ IF lock.exists /\ LockIsFresh(now, lock.mtime)
     THEN /\ pc' = [pc EXCEPT ![p] = "exited"]
          /\ exit_code' = [exit_code EXCEPT ![p] = 0]
          /\ warned' = [warned EXCEPT ![p] = "running"]
          /\ lock' = RemoveLock(lock)
     ELSE /\ pc' = [pc EXCEPT ![p] = "write"]
          /\ warned' = [warned EXCEPT ![p] = IF lock.exists THEN "stale" ELSE "none"]
          /\ UNCHANGED <<exit_code, lock>>
  /\ UNCHANGED <<config_attrs, now, results, success, outcome, io>>
  /\ UNCHANGED <<db, storeVars, collectVars, auxVars>>

\* run_collector.py:28-38; collection_start_time is the clock of this step
CheckLock(p) ==
  /\ pc[p] = "idle"
  /\ IF lock.exists /\ LockIsFresh(now, lock.mtime)
     THEN /\ pc' = [pc EXCEPT ![p] = "exited"]
          /\ exit_code' = [exit_code EXCEPT ![p] = 0]
          /\ warned' = [warned EXCEPT ![p] = "running"]
     ELSE /\ pc' = [pc EXCEPT ![p] = "write"]
          /\ warned' = [warned EXCEPT ![p] = IF lock.exists THEN "stale" ELSE "none"]
          /\ UNCHANGED exit_code
  /\ UNCHANGED <<config_attrs, now, lock, results, success, outcome, io>>
  /\ UNCHANGED <<db, storeVars, collectVars, auxVars>>

\* run_collector.py:41-42
WriteLock(p) ==
  /\ pc[p] = "write"
  /\ lock' = [exists |-> TRUE, mtime |-> now, owner |-> p]
  /\ pc' = [pc EXCEPT ![p] = "setup"]
  /\ UNCHANGED <<config_attrs, now, results, success, exit_code, warned,
                 outcome, io>>
  /\ UNCHANGED <<db, storeVars, collectVars, auxVars>>

\* run_collector.py:45-65: the log directory and the log handlers; an OSError
\* here is outside the try statement and ends the process
Setup(p) ==
  /\ pc[p] = "setup"
  /\ \/ /\ pc' = [pc EXCEPT ![p] = "collect"]
        /\ UNCHANGED exit_code
     \/ /\ pc' = [pc EXCEPT ![p] = "exited"]
        /\ exit_code' = [exit_code EXCEPT ![p] = 1]
  /\ UNCHANGED <<config_attrs, now, lock, results, success, warned, outcome, io>>
  /\ UNCHANGED <<db, storeVars, collectVars, auxVars>>

\* run_collector.py:66-89
Collect(p, envs) ==
  /\ pc[p] = "collect"
  /\ \/ \E env \in envs :
          LET res == collect_and_store_all_data(config_attrs, env) IN
          /\ results' = [results EXCEPT ![p] = res]
          /\ success' = [success EXCEPT ![p] = SuccessAfterLogging(res)]
          /\ io' = [io EXCEPT ![p] = CallsMade(config_attrs, env)]
          /\ outcome' = [outcome EXCEPT ![p] = env]
          /\ pc' = [pc EXCEPT ![p] = "finally"]
     \/ \* DataCollector() raises: except, sys.exit(1)
        /\ pc' = [pc EXCEPT ![p] = "finally_exit"]
        /\ UNCHANGED <<results, success, outcome, io>>
  /\ UNCHANGED <<config_attrs, now, lock, exit_code, warned>>
  /\ UNCHANGED <<db, storeVars, collectVars, auxVars>>

\* run_collector.py:90-99
Finally(p) ==
  /\ pc[p] \in {"finally", "finally_exit"}
  /\ lock' = RemoveLock(lock)
  /\ exit_code' = [exit_code EXCEPT ![p] =
                     ExitCode(pc[p] = "finally_exit", success[p])]
  /\ pc' = [pc EXCEPT ![p] = "exited"]
  /\ UNCHANGED <<config_attrs, now, results, success, warned, outcome, io>>
  /\ UNCHANGED <<db, storeVars, collectVars, auxVars>>

\* the clock; lines 28-42 of main are straight-line local code, far shorter
\* than a tick
Tick ==
  /\ now + TickSeconds <= MaxTime
  /\ \A p \in Procs : pc[p] # "write"
  /\ now' = now + TickSeconds
  /\ UNCHANGED <<config_attrs, lock, pc, results, success, exit_code, warned,
                 outcome, io>>
  /\ UNCHANGED <<db, storeVars, collectVars, auxVars>>

(***************************************************************************)
(* Spec: NumProcs invocations of main, started at any time.  The lock      *)
(* protocol reads a run only through how long it lasts and whether it      *)
(* raised, so the runs drawn here treat every source alike.                *)
(***************************************************************************)
UniformEnv(news, price) ==
  [news |-> [i \in 1..Len(NEWS_QUERIES) |-> news],
   crypto_news |-> [i \in 1..Len(CRYPTO) |-> news],
   crypto_price |-> [i \in 1..Len(CRYPTO) |-> price],
   indices |-> [i \in 1..Len(INDICES) |-> price]]

UniformEnvs ==
  {UniformEnv(Raise, Raise), UniformEnv(Call(<<>>), Call(None)),
   UniformEnv(Call(<<ARTICLE0>>), Call(Some(PRICE0)))}

Next ==
  \/ Tick
  \/ \E p \in Procs :
       \/ CheckLock(p)
       \/ WriteLock(p)
       \/ Setup(p)
       \/ Collect(p, UniformEnvs)
       \/ Finally(p)

Spec == Init /\ [][Next]_vars

(***************************************************************************)
(* SpecRun: one invocation of main, with every outcome of every source.    *)
(***************************************************************************)
NextRun ==
  \/ Tick
  \/ CheckLock(1)
  \/ WriteLock(1)
  \/ Setup(1)
  \/ Collect(1, Envs(config_attrs))
  \/ Finally(1)

SpecRun == Init /\ [][NextRun]_vars

\* FairRun: one invocation of main, with the runs of Spec.  The invocation is
\* a sequential process: while it has not exited, its next statement is
\* executed (every call it makes returns or raises).
NextFairRun ==
  \/ Tick
  \/ CheckLock(1)
  \/ WriteLock(1)
  \/ Setup(1)
  \/ Collect(1, UniformEnvs)
  \/ Finally(1)

FairRun ==
  /\ Init /\ [][NextFairRun]_vars
  /\ WF_vars(CheckLock(1) \/ WriteLock(1) \/ Setup(1)
             \/ Collect(1, UniformEnvs) \/ Finally(1))

(***************************************************************************)
(* The lock file (Spec).                                                   *)
(***************************************************************************)

\* C3: the lock file prevents overlap: no two invocations are ever both
\* executing collect_and_store_all_data.
C3_NoOverlap ==
  \A p, q \in Procs : p # q => ~(pc[p] = "collect" /\ pc[q] = "collect")

\* C4: an invocation that starts while the lock file exists and is younger
\* than 1800 seconds calls no fetch and no save and exits with code 0 (and,
\* having exited, does nothing more).
C4_FreshLockSkips ==
  [][\A p \in Procs :
       /\ (/\ pc[p] = "idle" /\ pc'[p] # "idle"
           /\ lock.exists /\ now - lock.mtime < STALE_SECONDS)
          => (/\ pc'[p] = "exited" /\ exit_code'[p] = 0
              /\ ~io'[p] /\ results'[p] = NoResults)
       /\ pc[p] = "exited"
          => (pc'[p] = "exited" /\ io'[p] = io[p] /\ exit_code'[p] = exit_code[p])
    ]_vars

\* an invocation was turned away while another one is collecting
C4_Witness ==
  \E p, q \in Procs :
    /\ pc[p] = "exited" /\ warned[p] = "running" /\ exit_code[p] = 0 /\ ~io[p]
    /\ pc[q] = "collect" /\ lock.exists /\ now - lock.mtime < STALE_SECONDS

C27_FreshLockUntouched ==
  [][\A p \in Procs :
       /\ (pc[p] = "idle" /\ pc'[p] = "exited") => lock' = lock
       /\ (pc[p] = "exited" /\ warned[p] = "running" /\ lock' # lock) =>
            \E q \in Procs \ {p} : pc'[q] # pc[q]
    ]_vars

\* an invocation was turned away and has exited, and the invocation that is
\* collecting still has its lock file, with the modification time it wrote
C27_Witness ==
  \E p, q \in Procs :
    /\ pc[p] = "exited" /\ warned[p] = "running"
    /\ pc[q] = "collect" /\ lock = [exists |-> TRUE, mtime |-> 0, owner |-> q]
    /\ now > 0

\* C28: the lock file is removed only by the invocation that wrote it: an
\* invocation that completes while the file is that of an invocation which
\* took over its stale file and is still running leaves the file in place.
C28_RemovedOnlyByWriter ==
  [][\A p \in Procs :
       (/\ pc[p] \in {"finally", "finally_exit"} /\ pc'[p] = "exited"
        /\ lock.exists /\ lock.owner # p
        /\ warned[lock.owner] = "stale" /\ pc[lock.owner] # "exited")
       => lock' = lock
    ]_vars

\* C6: an invocation that wrote the lock file leaves none behind when its
\* process has exited, whatever the exit path.
C6_NoMarkerLeftBehind ==
  \A p \in Procs : pc[p] = "exited" => ~(lock.exists /\ lock.owner = p)

(***************************************************************************)
(* The exit code (SpecRun).                                                *)
(***************************************************************************)
NewsValueClaimed(attrs, out) ==
  IF ~attrs \/ out.kind = "raise" THEN 0 ELSE Len(out.ret)

PriceValueClaimed(attrs, out) ==
  IF ~attrs \/ out.kind = "raise" THEN FALSE ELSE out.ret.some

\* every source that failed is reported as 0 / False, every other source as
\* its count / True
ReportedAsClaimed(attrs, res, env) ==
  /\ \A i \in 1..Len(NEWS_QUERIES) :
       /\ DictHas(res.news_articles, NEWS_QUERIES[i].name)
       /\ DictGet(res.news_articles, NEWS_QUERIES[i].name)
            = NewsValueClaimed(attrs, env.news[i])
  /\ \A i \in 1..Len(CRYPTO) :
       /\ DictHas(res.news_articles, CRYPTO[i].name)
       /\ DictGet(res.news_articles, CRYPTO[i].name)
            = NewsValueClaimed(attrs, env.crypto_news[i])
       /\ DictHas(res.price_data, CRYPTO[i].name)
       /\ DictGet(res.price_data, CRYPTO[i].name)
            = (/\ env.crypto_news[i].kind # "raise"
               /\ PriceValueClaimed(attrs, env.crypto_price[i]))
  /\ \A i \in 1..Len(INDICES) :
       /\ DictHas(res.price_data, INDICES[i].name)
       /\ DictGet(res.price_data, INDICES[i].name)
            = PriceValueClaimed(attrs, env.indices[i])

C9_TotalFailureExitsOne ==
  \A p \in Procs :
    (pc[p] = "exited" /\ results[p] # NoResults /\ ~AnyData(results[p]))
    => exit_code[p] = 1

\* every source was called and none yielded anything
C9_Witness ==
  \E p \in Procs :
    /\ pc[p] = "exited" /\ results[p] # NoResults /\ ~AnyData(results[p])
    /\ config_attrs /\ io[p] /\ exit_code[p] = 1
    /\ \A i \in 1..Len(INDICES) : outcome[p].indices[i].kind = "call"

\* the result map has an entry for every configured source
EverySourceVisited(res) ==
  /\ DictKeys(res.news_articles) = NewsNames
  /\ DictKeys(res.price_data) = PriceNames

\* C25 as stated: an invocation that has passed the lock check eventually
\* exits with code 0 or 1, having visited every configured source.
C25_TerminatesAfterEverySource ==
  \A p \in Procs :
    (pc[p] = "write") ~>
      (/\ pc[p] = "exited" /\ exit_code[p] \in {0, 1}
       /\ EverySourceVisited(results[p]))

\* C25: an invocation that has passed the lock check eventually exits with
\* code 0 or 1; when collect_and_store_all_data was called and returned, it
\* has visited every configured source.
C25_Terminates ==
  \A p \in Procs :
    (pc[p] = "write") ~>
      (/\ pc[p] = "exited" /\ exit_code[p] \in {0, 1}
       /\ results[p] # NoResults => EverySourceVisited(results[p]))

\* an invocation found no lock file, called its sources, recorded every one
\* of them and exited with code 0
C25_Witness ==
  \E p \in Procs :
    /\ pc[p] = "exited" /\ exit_code[p] = 0 /\ warned[p] = "none" /\ io[p]
    /\ EverySourceVisited(results[p])

\* C17: no source of the default configuration has a delay_hours entry, and
\* that alone makes none of them fail: in a run of collect_and_store_all_data
\* every price source whose fetch returns a price point that is stored is
\* recorded True, and every news source is recorded with the number of
\* articles its fetch returned after truncation to the default limit.
C17_DefaultsApply ==
  \A p \in Procs :
    results[p] # NoResults =>
      /\ \A i \in 1..Len(INDICES) :
           outcome[p].indices[i] = Call(Some(PRICE0)) =>
             DictGet(results[p].price_data, INDICES[i].name) = TRUE
      /\ \A i \in 1..Len(CRYPTO) :
           (/\ outcome[p].crypto_news[i].kind = "call"
            /\ outcome[p].crypto_price[i] = Call(Some(PRICE0))) =>
             DictGet(results[p].price_data, CRYPTO[i].name) = TRUE
      /\ \A i \in 1..Len(NEWS_QUERIES) :
           outcome[p].news[i].kind = "call" =>
             DictGet(results[p].news_articles, NEWS_QUERIES[i].name)
               = Len(outcome[p].news[i].ret)

(***************************************************************************)
(* SpecCollect: collect_and_store_all_data run again and again by one      *)
(* process (run_collector_scheduled, data_collector.py:278-295), one loop  *)
(* iteration a step, against the database.                                 *)
(***************************************************************************)
MaxRuns == 2
\* the observation timestamps the quote API returns are 1..MaxQuoteStamp
MaxQuoteStamp == 1

\* the steps of the three loops, in the order the code runs them; an
\* iteration of the crypto loop is its news part and then its price part
RECURSIVE CryptoSlots(_)
CryptoSlots(i) ==
  IF i > Len(CRYPTO) THEN <<>>
  ELSE <<[phase |-> "crypto_news", cfg |-> CRYPTO[i]],
         [phase |-> "crypto_price", cfg |-> CRYPTO[i]]>> \o CryptoSlots(i + 1)

Slots ==
  [i \in 1..Len(NEWS_QUERIES) |-> [phase |-> "news", cfg |-> NEWS_QUERIES[i]]]
  \o CryptoSlots(1)
  \o [i \in 1..Len(INDICES) |-> [phase |-> "index", cfg |-> INDICES[i]]]

Done == Len(Slots) + 1

\* a loop that lets the exception of an iteration end the run
AbortOnRaise(k, raised) == IF raised THEN Done ELSE k + 1

\* a loop that runs the iteration again when it raised
RetryOnRaise(k, raised) == IF raised THEN k ELSE k + 1

\* data_collector.py:196-208, 212-234, 238-250: the try statement is inside
\* the for loop, so the next iteration follows whether or not this one raised;
\* an exception in the news part of a crypto iteration skips its price part
AfterIteration(k, raised) ==
  IF raised /\ Slots[k].phase = "crypto_news" THEN k + 2 ELSE k + 1

\* the articles the news API returns to the collector
ApiArticles == {a \in Articles : a.source = "s1" /\ a.publishedAt = 1}

NewsFetches == {ApiError} \cup {ApiOk(r) : r \in SeqsUpTo(ApiArticles, MaxResponse)}

\* data_collector.py:120-125, 149-161: the call fails, the history is empty,
\* or the observation closest to the target time is made a price point
PriceFetches(symbol) ==
  {ApiError, [kind |-> "empty"]}
  \cup {[kind |-> "ok", price_data |-> [symbol |-> symbol, timestamp |-> t]] :
          t \in 1..MaxQuoteStamp}

\* a response the handling of which raises: an article without a title
\* (KeyError at database.py:185, before any write) or publishedAt values
\* that do not compare (TypeError in the sort at data_collector.py:68)
ApiMalformed == [kind |-> "malformed"]

\* a try statement without its except clause
Reraise(out, fallback) == out

\* data_collector.py:82-84, 172-174: `except Exception` around the whole
\* body, returning the fallback value
CatchAll(out, fallback) == IF out.kind = "raise" THEN Call(fallback) ELSE out

\* data_collector.py:40-80, the body of the try statement: the API call
\* raises, or config.DEFAULT_DELAY_HOURS / config.ARTICLES_PER_QUERY does, or
\* the handling of the response does, or the slice is stored and returned
NewsBody(attrs, coll, api, failed_at) ==
  IF api.kind # "ok" \/ ~attrs
  THEN [coll |-> coll, out |-> Raise, inserted |-> 0, db_failed |-> FALSE]
  ELSE LET articles_to_store == ArticlesToStore(api.articles)
           failing == Min(failed_at, Len(articles_to_store))
           r == insert_articles(coll, articles_to_store, failing)
       IN  [coll |-> r.coll, out |-> Call(articles_to_store), inserted |-> r.ret,
            db_failed |-> failing > 0]

\* collect_news_for_query (data_collector.py:39-84) on the collection `coll`
collect_news_for_query(attrs, coll, api, failed_at) ==
  LET body == NewsBody(attrs, coll, api, failed_at)
  IN  [body EXCEPT !.out = CatchAll(@, <<>>)]

\* data_collector.py:98-170, the body of the try statement: the quote call
\* raises, or the history is empty (line 125, before any write), or the
\* price point is stored
PriceBody(coll, api, failed) ==
  IF api.kind = "error" THEN [coll |-> coll, out |-> Raise, db_failed |-> FALSE]
  ELSE IF api.kind = "empty"
       THEN [coll |-> coll, out |-> Call(None), db_failed |-> FALSE]
  ELSE LET r == insert_price_data(coll, api.price_data, failed)
       IN  [coll |-> r.coll,
            out |-> Call(IF r.ret THEN Some(api.price_data) ELSE None),
            db_failed |-> ~r.ret]

\* collect_price_data (data_collector.py:97-174), called with a delay
collect_price_data(coll, api, failed) ==
  LET body == PriceBody(coll, api, failed)
  IN  [body EXCEPT !.out = CatchAll(@, None)]

StartRun ==
  /\ cpc \in {0, Done}
  /\ crun < MaxRuns
  /\ crun' = crun + 1
  /\ cpc' = 1
  /\ cresults' = NoResults
  /\ clog' = <<>>
  /\ UNCHANGED <<config_attrs, mainVars, auxVars, db, storeVars>>

\* data_collector.py:195-208
NewsQueryIter ==
  /\ cpc \in 1..Len(Slots) /\ Slots[cpc].phase = "news"
  /\ LET cfg == Slots[cpc].cfg IN
     \/ \* the iteration raises before the call returns
        /\ cresults' = NewsQueryStep(config_attrs, cresults, cfg, Raise)
        /\ clog' = Append(clog, [slot |-> cpc, raised |-> TRUE, db_failed |-> FALSE,
                                 news |-> None, price |-> None])
        /\ cpc' = AfterIteration(cpc, TRUE)
        /\ UNCHANGED db
     \/ /\ config_attrs
        /\ \E api \in NewsFetches, failed_at \in 0..ARTICLES_PER_QUERY :
             LET c == collect_news_for_query(config_attrs, db[cfg.collection],
                                             api, failed_at) IN
             /\ db' = [db EXCEPT ![cfg.collection] = c.coll]
             /\ cresults' = NewsQueryStep(config_attrs, cresults, cfg, c.out)
             /\ clog' = Append(clog, [slot |-> cpc, raised |-> FALSE,
                                      db_failed |-> c.db_failed,
                                      news |-> Some([count |-> Len(c.out.ret),
                                                     inserted |-> c.inserted]),
                                      price |-> None])
             /\ cpc' = AfterIteration(cpc, FALSE)
  /\ UNCHANGED <<config_attrs, mainVars, auxVars, storeVars, crun>>

\* data_collector.py:211-222
CryptoNewsPart ==
  /\ cpc \in 1..Len(Slots) /\ Slots[cpc].phase = "crypto_news"
  /\ LET cfg == Slots[cpc].cfg IN
     \/ /\ cresults' = CryptoNewsStep(config_attrs, cresults, cfg, Raise)
        /\ clog' = Append(clog, [slot |-> cpc, raised |-> TRUE, db_failed |-> FALSE,
                                 news |-> None, price |-> None])
        /\ cpc' = AfterIteration(cpc, TRUE)
        /\ UNCHANGED db
     \/ /\ config_attrs
        /\ \E api \in NewsFetches, failed_at \in 0..ARTICLES_PER_QUERY :
             LET c == collect_news_for_query(config_attrs, db[cfg.news_collection],
                                             api, failed_at) IN
             /\ db' = [db EXCEPT ![cfg.news_collection] = c.coll]
             /\ cresults' = CryptoNewsStep(config_attrs, cresults, cfg, c.out)
             /\ clog' = Append(clog, [slot |-> cpc, raised |-> FALSE,
                                      db_failed |-> c.db_failed,
                                      news |-> Some([count |-> Len(c.out.ret),
                                                     inserted |-> c.inserted]),
                                      price |-> None])
             /\ cpc' = AfterIteration(cpc, FALSE)
  /\ UNCHANGED <<config_attrs, mainVars, auxVars, storeVars, crun>>

\* data_collector.py:224-234
CryptoPricePart ==
  /\ cpc \in 1..Len(Slots) /\ Slots[cpc].phase = "crypto_price"
  /\ LET cfg == Slots[cpc].cfg IN
     \/ /\ cresults' = CryptoPriceStep(config_attrs, cresults, cfg, Raise)
        /\ clog' = Append(clog, [slot |-> cpc, raised |-> TRUE, db_failed |-> FALSE,
                                 news |-> None, price |-> None])
        /\ cpc' = AfterIteration(cpc, TRUE)
        /\ UNCHANGED db
     \/ \E papi \in PriceFetches(cfg.symbol),
           failed \in {"none", "find_one", "insert_one"} :
          LET d == collect_price_data(db[cfg.collection], papi, failed) IN
          /\ db' = [db EXCEPT ![cfg.collection] = d.coll]
          /\ cresults' = CryptoPriceStep(config_attrs, cresults, cfg, d.out)
          /\ clog' = Append(clog, [slot |-> cpc, raised |-> FALSE,
                                   db_failed |-> d.db_failed,
                                   news |-> None, price |-> Some(d.out.ret.some)])
          /\ cpc' = AfterIteration(cpc, FALSE)
  /\ UNCHANGED <<config_attrs, mainVars, auxVars, storeVars, crun>>

\* data_collector.py:237-250
IndexIter ==
  /\ cpc \in 1..Len(Slots) /\ Slots[cpc].phase = "index"
  /\ LET cfg == Slots[cpc].cfg IN
     \/ /\ cresults' = IndexStep(config_attrs, cresults, cfg, Raise)
        /\ clog' = Append(clog, [slot |-> cpc, raised |-> TRUE, db_failed |-> FALSE,
                                 news |-> None, price |-> None])
        /\ cpc' = AfterIteration(cpc, TRUE)
        /\ UNCHANGED db
     \/ /\ config_attrs
        /\ \E papi \in PriceFetches(cfg.symbol),
              failed \in {"none", "find_one", "insert_one"} :
             LET d == collect_price_data(db[cfg.collection], papi, failed) IN
             /\ db' = [db EXCEPT ![cfg.collection] = d.coll]
             /\ cresults' = IndexStep(config_attrs, cresults, cfg, d.out)
             /\ clog' = Append(clog, [slot |-> cpc, raised |-> FALSE,
                                      db_failed |-> d.db_failed,
                                      news |-> None, price |-> Some(d.out.ret.some)])
             /\ cpc' = AfterIteration(cpc, FALSE)
  /\ UNCHANGED <<config_attrs, mainVars, auxVars, storeVars, crun>>

NextCollect ==
  StartRun \/ NewsQueryIter \/ CryptoNewsPart \/ CryptoPricePart \/ IndexIter

SpecCollect == Init /\ [][NextCollect]_vars

\* the source of slot k was attempted in this run: its step ran, or it is the
\* price part of a crypto iteration whose news part raised
Attempted(k) ==
  \/ \E i \in 1..Len(clog) : clog[i].slot = k
  \/ /\ Slots[k].phase = "crypto_price"
     /\ \E i \in 1..Len(clog) : clog[i].slot = k - 1 /\ clog[i].raised

\* the result map records log entry e as the entry itself came out
RecordedAsItCameOut(e) ==
  LET name == Slots[e.slot].cfg.name
      phase == Slots[e.slot].phase
  IN  /\ phase = "news" =>
           /\ DictHas(cresults.news_articles, name)
           /\ DictGet(cresults.news_articles, name) =
                (IF e.raised THEN 0 ELSE e.news.val.count)
      /\ phase = "crypto_news" =>
           /\ DictHas(cresults.news_articles, name)
           /\ DictGet(cresults.news_articles, name) =
                (IF e.raised THEN 0 ELSE e.news.val.count)
           /\ e.raised => /\ DictHas(cresults.price_data, name)
                          /\ DictGet(cresults.price_data, name) = FALSE
      /\ phase \in {"crypto_price", "index"} =>
           /\ DictHas(cresults.price_data, name)
           /\ DictGet(cresults.price_data, name) =
                (IF e.raised THEN FALSE ELSE e.price.val)

\* C7: when collect_and_store_all_data returns, every configured source was
\* attempted whatever the other sources did, the result map has an entry for
\* every configured source, a source whose processing raised is recorded as
\* 0 (news) or False (price), and every other source is recorded with the
\* outcome of its own fetch.
C7_FailureIsIsolated ==
  cpc = Done =>
    /\ \A k \in 1..Len(Slots) : Attempted(k)
    /\ DictKeys(cresults.news_articles) = NewsNames
    /\ DictKeys(cresults.price_data) = PriceNames
    /\ \A i \in 1..Len(clog) : RecordedAsItCameOut(clog[i])

\* a run is over in which one source raised and a later source delivered data
C7_Witness ==
  /\ cpc = Done
  /\ \E i, j \in 1..Len(clog) :
       /\ i < j
       /\ clog[i].raised
       /\ ~clog[j].raised
       /\ \/ clog[j].news.some /\ clog[j].news.val.count > 0
          \/ clog[j].price.some /\ clog[j].price.val

\* C24: within one run of collect_and_store_all_data the iterations come in
\* configuration order (the news queries, then for each crypto asset its
\* news part and then its price part, then the indices), none is made twice,
\* whether or not it failed, and when the run returns every source has had
\* its iteration.
C24_EachSourceOnceInOrder ==
  /\ \A i, j \in 1..Len(clog) : i < j => clog[i].slot < clog[j].slot
  /\ \A i \in 1..Len(clog) : clog[i].slot < cpc
  /\ cpc = Done => \A k \in 1..Len(Slots) : Attempted(k)

\* the second run is over; its first source raised, its second source met a
\* database error, and each source has one log entry
C24_Witness ==
  /\ cpc = Done /\ crun = 2
  /\ Len(clog) = Len(Slots)
  /\ clog[1].raised /\ clog[2].db_failed
  /\ \A k \in 1..Len(Slots) : clog[k].slot = k

InsertArticlesCall(collection, articles, failed_at) ==
  LET r == insert_articles(db[collection], articles, failed_at) IN
  /\ db' = [db EXCEPT ![collection] = r.coll]
  /\ inserted_count' = r.ret
  /\ UNCHANGED <<config_attrs, mainVars, auxVars, price_call, price_ret, calls, collectVars,
                 scoreVars>>

NextArticles ==
  \E collection \in ARTICLE_COLLECTIONS, articles \in SeqsUpTo(Articles, MaxBatch) :
    \E failed_at \in 0..Len(articles) :
      InsertArticlesCall(collection, articles, failed_at)

SpecArticles == Init /\ [][NextArticles]_vars

(***************************************************************************)
(* SpecPrices: clients (collector invocations) calling insert_price_data.  *)
(***************************************************************************)
\* database.py:228-252: up to and including find_one
PriceFindOne(c, collection, price_data) ==
  /\ price_call[c].pc = "idle"
  /\ calls < MaxCalls
  /\ calls' = calls + 1
  /\ \/ \* find_one raises PyMongoError
        /\ price_ret' = [price_ret EXCEPT ![c] = "False"]
        /\ UNCHANGED price_call
     \/ /\ FindOnePrice(db[collection], price_data)
        /\ price_ret' = [price_ret EXCEPT ![c] = "True"]
        /\ UNCHANGED price_call
     \/ /\ ~FindOnePrice(db[collection], price_data)
        /\ price_call' = [price_call EXCEPT ![c] =
             [pc |-> "insert", collection |-> collection, price_data |-> price_data]]
        /\ price_ret' = [price_ret EXCEPT ![c] = "none"]
  /\ UNCHANGED <<config_attrs, mainVars, auxVars, db, inserted_count, collectVars, scoreVars>>

\* database.py:254-262: insert_one
PriceInsertOne(c) ==
  /\ price_call[c].pc = "insert"
  /\ price_call' = [price_call EXCEPT ![c] = NoPriceCall]
  /\ \/ /\ db' = [db EXCEPT ![price_call[c].collection] =
                    InsertOnePrice(@, price_call[c].price_data)]
        /\ price_ret' = [price_ret EXCEPT ![c] = "True"]
     \/ \* insert_one raises PyMongoError
        /\ price_ret' = [price_ret EXCEPT ![c] = "False"]
        /\ UNCHANGED db
  /\ UNCHANGED <<config_attrs, mainVars, auxVars, inserted_count, calls, collectVars,
                 scoreVars>>

NextPrices ==
  \E c \in Clients :
    \/ \E price_data \in PricePoints : PriceFindOne(c, "bitcoin_price", price_data)
    \/ PriceInsertOne(c)

SpecPrices == Init /\ [][NextPrices]_vars

(***************************************************************************)
(* The store.                                                              *)
(***************************************************************************)
KeyOf(doc) == <<doc.title, doc.source>>

\* C1: after any sequence of insert_articles calls a collection holds at
\* most one document for each (title, source name).
C1_OneRecordPerArticleKey ==
  \A collection \in ARTICLE_COLLECTIONS :
    \A i, j \in 1..Len(db[collection]) :
      KeyOf(db[collection][i]) = KeyOf(db[collection][j]) => i = j

\* the last call submitted an article whose key is stored, and inserted nothing
C1_Witness ==
  \E collection \in ARTICLE_COLLECTIONS :
    /\ Len(db[collection]) = 3
    /\ \E i \in 1..3 : db[collection][i].published_at = 2
    /\ inserted_count = 0

\* C2: after any interleaving of insert_price_data calls a collection holds
\* at most one document for each (symbol, timestamp).
C2_OneRecordPerPriceKey ==
  \A collection \in PRICE_COLLECTIONS :
    \A i, j \in 1..Len(db[collection]) :
      (/\ db[collection][i].symbol = db[collection][j].symbol
       /\ db[collection][i].timestamp = db[collection][j].timestamp) => i = j

\* a record with the symbol and the timestamp of the price point is stored
PriceStored(collection, price_data) ==
  \E i \in 1..Len(db[collection]) :
    /\ db[collection][i].symbol = price_data.symbol
    /\ db[collection][i].timestamp = price_data.timestamp

\* C13: an insert_price_data call whose database commands succeed returns
\* True and leaves the collection as it was when find_one finds a record with
\* the symbol and timestamp of the price point; when find_one finds none it
\* goes on to insert_one, which appends exactly that one record, changes no
\* stored record and returns True.
C13_PresentKeptElseInserted ==
  [][\A c \in Clients :
       /\ \A price_data \in PricePoints :
            (PriceFindOne(c, "bitcoin_price", price_data) /\ price_ret'[c] # "False") =>
              /\ db' = db
              /\ IF PriceStored("bitcoin_price", price_data)
                 THEN price_ret'[c] = "True" /\ price_call'[c] = NoPriceCall
                 ELSE price_ret'[c] = "none" /\ price_call'[c].pc = "insert"
       /\ (PriceInsertOne(c) /\ price_ret'[c] # "False") =>
            /\ price_ret'[c] = "True"
            /\ db' = [db EXCEPT ![price_call[c].collection] =
                                  Append(@, price_call[c].price_data)]
    ]_vars

\* three calls were made and both clients were answered True, yet one record
\* is stored: a call found its price point stored and added nothing
C13_Witness ==
  /\ calls = 3
  /\ \A c \in Clients : price_call[c] = NoPriceCall /\ price_ret[c] = "True"
  /\ Len(db["bitcoin_price"]) = 1

(***************************************************************************)
(* SpecRecord: one call of the store, insert_articles on any batch or       *)
(* update_article_sentiment on any identifier, at any instant, on a        *)
(* collection that holds no, one or two records.                           *)
(***************************************************************************)
MaxRecordBatch == 2

RecordArticles ==
  [title : {"t1"}, source : {"s1"}, publishedAt : PublishedAtValues]
  \cup [title : {"t2"}, source : {"s1"}, publishedAt : {Null, Str("bad", 0)}]

RECORD1 == RecordOf([title |-> "t1", source |-> "s1", publishedAt |-> Absent], 0)
RECORD2 == RecordOf([title |-> "t2", source |-> "s1", publishedAt |-> Null], 0)
Scored(rec) == [rec EXCEPT !.sentiment = Some(SentimentOf(rec.title)),
                           !.sentiment_updated_at = Some(0)]

StoredBefore ==
  {<<>>, <<RECORD1>>, <<Scored(RECORD1)>>, <<Scored(RECORD1), RECORD2>>}

\* the identifiers update_article_sentiment is called with: those of the
\* stored records and one more, as ObjectId or in hex, and a string that is
\* no ObjectId
ArticleIds ==
  {Oid(n) : n \in 1..3} \cup {StrId(TRUE, n) : n \in 1..3} \cup {StrId(FALSE, 0)}

InsertCalls ==
  {[op |-> "insert_articles", collection |-> "bitcoin_articles",
    articles |-> articles, failed_at |-> failed_at] :
     articles \in SeqsUpTo(RecordArticles, MaxRecordBatch), failed_at \in 0..MaxRecordBatch}

UpdateCalls ==
  [op : {"update_article_sentiment"}, collection : {"bitcoin_articles"},
   article_id : ArticleIds, sentiment : {SentimentOf("t1"), SentimentOf("t2")},
   failed : BOOLEAN]

\* the hours of the observations of a quote history, and of the target time
MaxQuoteHour == 3

\* the UTC offset of the index of the history: yfinance returns it in the
\* time zone of the exchange (UTC for BTC-USD, America/New_York for ^GSPC)
UTC_OFFSETS == {0, -2}

\* data_collector.py:130, 145: idx.to_pydatetime().replace(tzinfo=None) drops
\* the zone and keeps the wall clock of the observation
NaiveTimestamp(hour, utc_offset) == hour + utc_offset

Distance(a, b) == IF a >= b THEN a - b ELSE b - a

\* data_collector.py:127-146: min(range(len(timestamps)), key=...) returns
\* the first index with the least key; a history of one is taken as it is
ClosestIdx(hist, utc_offset, target_date) ==
  IF Len(hist) > 1
  THEN CHOOSE i \in 1..Len(hist) :
         \A j \in 1..Len(hist) :
           LET di == Distance(NaiveTimestamp(hist[i], utc_offset), target_date)
               dj == Distance(NaiveTimestamp(hist[j], utc_offset), target_date)
           IN  di < dj \/ (di = dj /\ i <= j)
  ELSE 1

\* the selection of collect_price_data on any non-empty history (the hours
\* of its observations, ascending) and any target time
ClosestCalls ==
  {[op |-> "closest", hist |-> hist, utc_offset |-> o, target_date |-> t] :
     hist \in {h \in UNION {[1..n -> 0..MaxQuoteHour] : n \in 1..(MaxQuoteHour + 1)} :
                \A i, j \in 1..Len(h) : i < j => h[i] < h[j]},
     o \in UTC_OFFSETS, t \in 0..MaxQuoteHour}

\* the most sentences a text analysed in SpecRecord has
MaxSentences == 2

\* what the FinBERT model gives for a sentence: it raises, or its
\* probabilities weigh to one of these scores (lines 131-134), in sixtieths
SentenceOutcomes == {Raise} \cup {Call(score) : score \in {0, 18, 24, 30, 36, 42, 60}}

\* analyze_sentiment_finbert on a text of 0, 9 or 10 characters, white space
\* only or not, with sentences of 4 or 5 characters
AnalyzeCalls ==
  {[op |-> "analyze", text |-> [chars |-> c, blank |-> b, sentences |-> ss]] :
     c \in {0, 9, 10}, b \in BOOLEAN,
     ss \in SeqsUpTo([chars : {4, 5}, out : SentenceOutcomes], MaxSentences)}

\* collect_news_for_query on any response of the news API
NewsCalls ==
  [op : {"collect_news_for_query"}, collection : {"global_economy_articles"},
   api : {ApiError, ApiMalformed} \cup {ApiOk(r) : r \in SeqsUpTo(Articles, MaxResponse)},
   failed_at : 0..ARTICLES_PER_QUERY]

\* collect_price_data on any answer of the quote API
PriceCalls ==
  [op : {"collect_price_data"}, collection : {"bitcoin_price"},
   api : PriceFetches("BTC-USD"), failed : {"none", "find_one", "insert_one"}]

InitRecord ==
  /\ now = 0
  /\ lock = NoLock
  /\ pc = [p \in Procs |-> "idle"]
  /\ results = [p \in Procs |-> NoResults]
  /\ success = [p \in Procs |-> FALSE]
  /\ exit_code = [p \in Procs |-> NoCode]
  /\ warned = [p \in Procs |-> "none"]
  /\ outcome = [p \in Procs |-> NoEnv]
  /\ io = [p \in Procs |-> FALSE]
  /\ inserted_count = 0
  /\ price_call = [c \in Clients |-> NoPriceCall]
  /\ price_ret = [c \in Clients |-> "none"]
  /\ calls = 0
  /\ crun = 0
  /\ cpc = 0
  /\ cresults = NoResults
  /\ clog = <<>>
  /\ pass = [a \in Analyzers |-> NoPass]
  /\ last = NoLast
  /\ cls_instance = NoInstance
  /\ objects = 0
  /\ initialize_runs = 0
  /\ constructions = <<>>
  /\ snake = NoSnake
  /\ food = NoFood
  /\ game_over = FALSE
  /\ running = "no"
  /\ frame = 0
  /\ moved = <<NoDirection, NoDirection>>
  /\ backlog = NoBacklog
  /\ scan = NoScan
  /\ \/ /\ config_attrs = FALSE
        /\ utcnow \in Instants
        /\ \E before \in StoredBefore :
             db = [c \in Collections |->
                     IF c = "bitcoin_articles" THEN before ELSE <<>>]
        /\ pending \in {c \in InsertCalls : c.failed_at <= Len(c.articles)}
                       \cup UpdateCalls
     \/ /\ config_attrs \in BOOLEAN
        /\ utcnow = 0
        /\ \E stamp \in 0..MaxQuoteStamp :
             db = [c \in Collections |->
                     IF c = "bitcoin_price" /\ stamp > 0
                     THEN <<[symbol |-> "BTC-USD", timestamp |-> stamp]>> ELSE <<>>]
        /\ pending \in NewsCalls \cup PriceCalls
     \/ /\ config_attrs = TRUE
        /\ utcnow = 0
        /\ db = [c \in Collections |-> <<>>]
        /\ pending \in ClosestCalls
     \/ /\ config_attrs = TRUE
        /\ utcnow = 0
        /\ db = [c \in Collections |-> <<>>]
        /\ pending \in {c \in AnalyzeCalls :
                          c.text.blank => c.text.sentences = <<>>}

\* database.py:123-212, the pending call made
InsertPending ==
  /\ pending.op = "insert_articles"
  /\ last = NoLast
  /\ LET r == InsertArticleRecords(db[pending.collection], pending.articles,
                                   utcnow, pending.failed_at) IN
     /\ db' = [db EXCEPT ![pending.collection] = r.coll]
     /\ last' = [op |-> "insert_articles", before |-> Len(db[pending.collection]),
                 stored |-> db[pending.collection], out |-> Call(r.ret)]
  /\ UNCHANGED <<config_attrs, mainVars, auxVars, inserted_count, price_call, price_ret,
                 calls, collectVars, utcnow, pass, pending>>

\* database.py:264-299, the pending call made
UpdatePending ==
  /\ pending.op = "update_article_sentiment"
  /\ last = NoLast
  /\ LET r == update_article_sentiment(db[pending.collection], pending.article_id,
                                       pending.sentiment, utcnow, pending.failed) IN
     /\ db' = [db EXCEPT ![pending.collection] = r.coll]
     /\ last' = [op |-> "update_article_sentiment",
                 before |-> Len(db[pending.collection]),
                 stored |-> db[pending.collection], out |-> r.out]
  /\ UNCHANGED <<config_attrs, mainVars, auxVars, inserted_count, price_call, price_ret,
                 calls, collectVars, utcnow, pass, pending>>

\* data_collector.py:28-84, the pending call made
NewsPending ==
  /\ pending.op = "collect_news_for_query"
  /\ last = NoLast
  /\ LET c == collect_news_for_query(config_attrs, db[pending.collection],
                                     pending.api, pending.failed_at) IN
     /\ db' = [db EXCEPT ![pending.collection] = c.coll]
     /\ last' = [op |-> "collect_news_for_query",
                 before |-> Len(db[pending.collection]),
                 stored |-> db[pending.collection], out |-> c.out]
  /\ UNCHANGED <<config_attrs, mainVars, auxVars, inserted_count, price_call, price_ret,
                 calls, collectVars, utcnow, pass, pending>>

\* data_collector.py:86-174, the pending call made
PricePending ==
  /\ pending.op = "collect_price_data"
  /\ last = NoLast
  /\ LET d == collect_price_data(db[pending.collection], pending.api,
                                 pending.failed) IN
     /\ db' = [db EXCEPT ![pending.collection] = d.coll]
     /\ last' = [op |-> "collect_price_data",
                 before |-> Len(db[pending.collection]),
                 stored |-> db[pending.collection], out |-> d.out]
  /\ UNCHANGED <<config_attrs, mainVars, auxVars, inserted_count, price_call, price_ret,
                 calls, collectVars, utcnow, pass, pending>>

\* data_collector.py:127-146, the pending selection made
ClosestPending ==
  /\ pending.op = "closest"
  /\ last = NoLast
  /\ last' = [op |-> "closest",
              out |-> Call(ClosestIdx(pending.hist, pending.utc_offset,
                                      pending.target_date))]
  /\ UNCHANGED <<config_attrs, mainVars, auxVars, db, inserted_count, price_call,
                 price_ret, calls, collectVars, utcnow, pass, pending>>

\* sentiment_analyzer.py:85-160, the pending analysis made
AnalyzePending ==
  /\ pending.op = "analyze"
  /\ last = NoLast
  /\ last' = [op |-> "analyze", out |-> Call(analyze_sentiment_finbert(pending.text))]
  /\ UNCHANGED <<config_attrs, mainVars, auxVars, db, inserted_count, price_call,
                 price_ret, calls, collectVars, utcnow, pass, pending>>

NextRecord ==
  \/ InsertPending \/ UpdatePending \/ NewsPending \/ PricePending
  \/ ClosestPending \/ AnalyzePending

SpecRecord == InitRecord /\ [][NextRecord]_vars

Unparseable(publishedAt) ==
  publishedAt \in {Absent, Null} \/ (publishedAt.kind = "str" /\ publishedAt.form = "bad")

\* the record the call added for the article at place i of the batch, if it
\* added one
AddedFor(i) ==
  {k \in (last.before + 1)..Len(db[pending.collection]) :
     MatchesFilter(db[pending.collection][k], pending.articles[i])}

\* the article at place i is new: no record stored before the call and no
\* earlier article of the batch has its title and source
IsNew(i) ==
  /\ \A k \in 1..last.before : ~MatchesFilter(db[pending.collection][k], pending.articles[i])
  /\ \A j \in 1..(i - 1) : ~MatchesFilter(pending.articles[j], pending.articles[i])

\* C11: after an insert_articles call that met no database error, every new
\* article of the batch whose publishedAt is missing, is no string, or is a
\* string in none of the accepted formats has a record, and that record's
\* published_at equals its stored_at.
C11_UnparseableFallsBackToStoredAt ==
  (last.op = "insert_articles" /\ pending.failed_at = 0) =>
    \A i \in 1..Len(pending.articles) :
      (IsNew(i) /\ Unparseable(pending.articles[i].publishedAt)) =>
        /\ AddedFor(i) # {}
        /\ \A k \in AddedFor(i) :
             LET rec == db[pending.collection][k] IN
             rec.published_at = Time(rec.stored_at)

\* C23: after an insert_articles call that met no database error, every new
\* article of the batch whose publishedAt is a well-formed string in an
\* accepted format (ISO 8601 with a trailing Z, ISO 8601 with T and no zone,
\* or YYYY-MM-DD HH:MM:SS) has a record whose published_at is the instant
\* the string denotes.
C23_ParseableTimestampKept ==
  (last.op = "insert_articles" /\ pending.failed_at = 0) =>
    \A i \in 1..Len(pending.articles) :
      LET publishedAt == pending.articles[i].publishedAt IN
      (/\ IsNew(i) /\ publishedAt.kind = "str"
       /\ publishedAt.form \in {"Z", "T", "plain"}) =>
        /\ AddedFor(i) # {}
        /\ \A k \in AddedFor(i) :
             db[pending.collection][k].published_at = Time(publishedAt.t)

\* C12: an insert_articles call leaves every record that was stored before it
\* as it was, field for field (stored_at, published_at and the sentiment
\* included), also when the batch holds an article with the title and source
\* of a stored record.
C12_InsertNeverOverwrites ==
  last.op = "insert_articles" =>
    /\ Len(db[pending.collection]) >= Len(last.stored)
    /\ \A i \in 1..Len(last.stored) : db[pending.collection][i] = last.stored[i]

\* a record stored at an earlier instant without a publication date, and
\* scored since, was submitted again with one; nothing was inserted
C12_Witness ==
  /\ last.op = "insert_articles" /\ pending.failed_at = 0
  /\ last.out = Call(0)
  /\ last.stored # <<>> /\ last.stored[1].sentiment.some
  /\ last.stored[1].stored_at < utcnow
  /\ Len(pending.articles) > 0
  /\ pending.articles[1].title = last.stored[1].title
  /\ pending.articles[1].publishedAt = Str("T", 1)

\* the record of identifier n differs from what it was at most in sentiment
\* and sentiment_updated_at
OnlySentimentSet(was, is) ==
  is = [was EXCEPT !.sentiment = is.sentiment,
                   !.sentiment_updated_at = is.sentiment_updated_at]

\* C14: an update_article_sentiment call whose database command does not
\* fail returns True or False; when a record has the identifier it returns
\* True, that record has the sentiment and at most its sentiment and
\* sentiment_updated_at differ from before, and every other record is as
\* before; when no record has the identifier it returns False and the
\* collection is as before.
C14_UpdateOneOrFalse ==
  (last.op = "update_article_sentiment" /\ ~pending.failed) =>
    LET coll == db[pending.collection]
        has == pending.article_id.n \in 1..Len(last.stored)
    IN  /\ last.out.kind = "call"
        /\ Len(coll) = Len(last.stored)
        /\ has => /\ last.out = Call(TRUE)
                  /\ coll[pending.article_id.n].sentiment = Some(pending.sentiment)
                  /\ \A i \in 1..Len(coll) :
                       IF i = pending.article_id.n
                       THEN OnlySentimentSet(last.stored[i], coll[i])
                       ELSE coll[i] = last.stored[i]
        /\ ~has => (last.out = Call(FALSE) /\ coll = last.stored)

\* ret holds articles of the response, each place of the response used at
\* most once, newest first, and no article left out is newer than one kept
FirstNewest(ret, articles) ==
  /\ \A i, j \in 1..Len(ret) : i < j => ret[i].publishedAt >= ret[j].publishedAt
  /\ \E f \in [1..Len(ret) -> 1..Len(articles)] :
       /\ \A i, j \in 1..Len(ret) : f[i] = f[j] => i = j
       /\ \A i \in 1..Len(ret) : ret[i] = articles[f[i]]
       /\ \A k \in 1..Len(articles) :
            (\A i \in 1..Len(ret) : f[i] # k) =>
              \A i \in 1..Len(ret) : ret[i].publishedAt >= articles[k].publishedAt

\* C19: for every response of the news API with n articles,
\* collect_news_for_query returns min(n, ARTICLES_PER_QUERY) articles, and
\* they are the first of the response in descending order of publishedAt.
C19_NewestSliceReturned ==
  (last.op = "collect_news_for_query" /\ pending.api.kind = "ok") =>
    /\ last.out.kind = "call"
    /\ Len(last.out.ret) = Min(Len(pending.api.articles), ARTICLES_PER_QUERY)
    /\ FirstNewest(last.out.ret, pending.api.articles)

\* C20: collect_news_for_query and collect_price_data return whatever
\* happens: when the API call, the handling of the response or a missing
\* configuration attribute raises, collect_news_for_query returns [] and
\* collect_price_data returns None; for an empty quote history
\* collect_price_data returns None and leaves the collection as it was.
C20_FetchNeverRaises ==
  /\ last.op = "collect_news_for_query" =>
       /\ last.out.kind = "call"
       /\ (pending.api.kind # "ok" \/ ~config_attrs) => last.out = Call(<<>>)
  /\ last.op = "collect_price_data" =>
       /\ last.out.kind = "call"
       /\ pending.api.kind = "error" => last.out = Call(None)
       /\ pending.api.kind = "empty" =>
            (last.out = Call(None) /\ db[pending.collection] = last.stored)

\* the news API call raised in a collect_news_for_query call that had its
\* configuration, and the call returned []
C20_Witness ==
  /\ last.op = "collect_news_for_query"
  /\ config_attrs /\ pending.api = ApiError
  /\ last.out = Call(<<>>)

\* C21: for every non-empty quote history the observation collect_price_data
\* takes is one whose time is nearest to the target time (now minus
\* delay_hours) among all observations of the history, the earliest of them
\* on a tie.
C21_ClosestObservation ==
  last.op = "closest" =>
    LET i == last.out.ret IN
    /\ i \in 1..Len(pending.hist)
    /\ \A j \in 1..Len(pending.hist) :
         LET di == Distance(pending.hist[i], pending.target_date)
             dj == Distance(pending.hist[j], pending.target_date)
         IN  di < dj \/ (di = dj /\ i <= j)

(***************************************************************************)
(* SpecScore: collector runs inserting articles and scoring passes         *)
(* (analyze_and_store_all_sentiments), which may overlap, on the article   *)
(* collections, while the clock of the store advances.                     *)
(***************************************************************************)
\* sentiment_analyzer.py:198, the default of `limit`
ANALYZE_LIMIT == 100

\* sentiment_analyzer.py:308-315: the crypto news collections, then the
\* collections of the news queries
PASS_COLLECTIONS ==
  [i \in 1..Len(CRYPTO) |-> CRYPTO[i].news_collection]
  \o [i \in 1..Len(NEWS_QUERIES) |-> NEWS_QUERIES[i].collection]

\* what the news API returns for the bitcoin query in SpecScore: one article,
\* with or without a publication date; the other queries return nothing, and
\* a pass finds their collections empty
ScoreArticles ==
  {[title |-> "t1", source |-> "s1", publishedAt |-> Absent],
   [title |-> "t1", source |-> "s1", publishedAt |-> Str("T", 0)]}

\* the last instant the clock of the store reaches in SpecScore
MaxScoreInstant == 1
\* the longest batch a collector run stores in SpecScore
MaxScoreBatch == 1

ScoreTick ==
  /\ utcnow < MaxScoreInstant
  /\ utcnow' = utcnow + 1
  /\ UNCHANGED <<config_attrs, mainVars, auxVars, db, inserted_count, price_call,
                 price_ret, calls, collectVars, pass, last, pending>>

\* data_collector.py:77, a collector run storing what a news query returned
CollectorInsert(collection) ==
  /\ \E articles \in SeqsUpTo(ScoreArticles, MaxScoreBatch) :
       \E failed_at \in 0..Len(articles) :
         LET r == InsertArticleRecords(db[collection], articles, utcnow, failed_at) IN
         db' = [db EXCEPT ![collection] = r.coll]
  /\ UNCHANGED <<config_attrs, mainVars, auxVars, inserted_count, price_call, price_ret,
                 calls, collectVars, utcnow, pass, last, pending>>

\* the price point a collector run of SpecScore stores
ScorePricePoint == [symbol |-> "BTC-USD", timestamp |-> 1]

\* data_collector.py:166, a collector run storing a quote, with no other
\* client between its commands
CollectorPrice(collection) ==
  /\ \E failed \in {"none", "find_one", "insert_one"} :
       db' = [db EXCEPT ![collection] =
                insert_price_data(@, ScorePricePoint, failed).coll]
  /\ UNCHANGED <<config_attrs, mainVars, auxVars, inserted_count, price_call, price_ret,
                 calls, collectVars, utcnow, pass, last, pending>>

\* sentiment_analyzer.py:211-215: the pass reads the unscored articles of its
\* next collection
PassRead(a) ==
  /\ \/ pass[a].pc = "idle"
     \/ /\ pass[a].pc = "scoring" /\ pass[a].todo = <<>>
        /\ pass[a].at < Len(PASS_COLLECTIONS)
  /\ LET at == IF pass[a].pc = "idle" THEN 1 ELSE pass[a].at + 1 IN
     \E failed \in BOOLEAN :
       pass' = [pass EXCEPT ![a] =
                  [pc |-> "scoring", at |-> at,
                   todo |-> get_articles_without_sentiment(
                              db[PASS_COLLECTIONS[at]], ANALYZE_LIMIT, failed)]]
  /\ UNCHANGED <<config_attrs, mainVars, auxVars, db, inserted_count, price_call,
                 price_ret, calls, collectVars, utcnow, last, pending>>

\* sentiment_analyzer.py:219-221, 162-196: analyze_article on the next article
\* read; an exception of the update is logged and dropped
PassScore(a) ==
  /\ pass[a].pc = "scoring" /\ pass[a].todo # <<>>
  /\ LET collection == PASS_COLLECTIONS[pass[a].at]
         n == Head(pass[a].todo)
     IN  \E failed, sentence_failed \in BOOLEAN :
           LET sentiment == analyze_sentiment_finbert(
                             FullText(db[collection][n].title, sentence_failed))
               r == update_article_sentiment(db[collection], Oid(n), sentiment,
                                             utcnow, failed)
           IN  db' = [db EXCEPT ![collection] = r.coll]
  /\ pass' = [pass EXCEPT ![a].todo = Tail(@)]
  /\ UNCHANGED <<config_attrs, mainVars, auxVars, inserted_count, price_call, price_ret,
                 calls, collectVars, utcnow, last, pending>>

\* sentiment_analyzer.py:317-321: the last collection is done
PassEnd(a) ==
  /\ pass[a].pc = "scoring" /\ pass[a].todo = <<>>
  /\ pass[a].at = Len(PASS_COLLECTIONS)
  /\ pass' = [pass EXCEPT ![a] = NoPass]
  /\ UNCHANGED <<config_attrs, mainVars, auxVars, db, inserted_count, price_call,
                 price_ret, calls, collectVars, utcnow, last, pending>>

NextScore ==
  \/ ScoreTick
  \/ CollectorInsert("bitcoin_articles")
  \/ CollectorPrice("bitcoin_price")
  \/ \E a \in Analyzers : PassRead(a) \/ PassScore(a) \/ PassEnd(a)

SpecScore == Init /\ [][NextScore]_vars

\* C15: once an article record carries a sentiment, no step of a collector
\* run or of a scoring pass changes or removes it, nor scores the record
\* again: the record stays, with the same sentiment and the same
\* sentiment_updated_at.
C15_ScoredOnce ==
  [][\A collection \in ARTICLE_COLLECTIONS :
       \A i \in 1..Len(db[collection]) :
         db[collection][i].sentiment.some =>
           /\ i <= Len(db'[collection])
           /\ db'[collection][i].sentiment = db[collection][i].sentiment
           /\ db'[collection][i].sentiment_updated_at =
                db[collection][i].sentiment_updated_at
    ]_vars

\* C16: in every step of a collector run or of a scoring pass each
\* collection keeps the records it has: a price record stays as it is and
\* an article record changes at most in sentiment and sentiment_updated_at.
C16_RecordsOnlyGrow ==
  [][/\ \A collection \in ARTICLE_COLLECTIONS :
          /\ Len(db'[collection]) >= Len(db[collection])
          /\ \A i \in 1..Len(db[collection]) :
               OnlySentimentSet(db[collection][i], db'[collection][i])
     /\ \A collection \in PRICE_COLLECTIONS :
          /\ Len(db'[collection]) >= Len(db[collection])
          /\ \A i \in 1..Len(db[collection]) :
               db'[collection][i] = db[collection][i]
    ]_vars

\* a quote is stored, and an article stored at instant 0 was scored at the
\* last instant, while a pass that had read it unscored has yet to score it
C16_Witness ==
  /\ Len(db["bitcoin_price"]) = 1
  /\ Len(db["bitcoin_articles"]) = 1
  /\ db["bitcoin_articles"][1].stored_at = 0
  /\ db["bitcoin_articles"][1].sentiment_updated_at = Some(MaxScoreInstant)
  /\ \E a \in Analyzers : pass[a].pc = "scoring" /\ pass[a].todo = <<1>>
                            /\ PASS_COLLECTIONS[pass[a].at] = "bitcoin_articles"

(***************************************************************************)
(* SpecSingleton: constructions of MongoDBClient within one process.       *)
(* database.py:450 constructs the class when the module is first imported; *)
(* here any module of the process may write MongoDBClient() again.         *)
(***************************************************************************)
MaxConstructions == 4
Modules == {"database", "data_collector", "run_collector"}

\* every construction allocates and initialises, whatever _instance holds
AlwaysNone(instance) == TRUE

\* database.py:25, `cls._instance is None`
IsNone(instance) == instance = NoInstance

\* database.py:23-28, __new__: _instance is assigned before _initialize runs
\* (lines 26, 27), and _initialize (30-45) lets its exception out of __new__
Construct(m, initialize_ok) ==
  /\ Len(constructions) < MaxConstructions
  /\ IF IsNone(cls_instance)
     THEN /\ objects' = objects + 1
          /\ cls_instance' = objects + 1
          /\ initialize_runs' = initialize_runs + 1
          /\ constructions' = Append(constructions,
                                [by |-> m,
                                 out |-> IF initialize_ok
                                         THEN Call(objects + 1) ELSE Raise])
     ELSE /\ constructions' = Append(constructions,
                                [by |-> m, out |-> Call(cls_instance)])
          /\ UNCHANGED <<cls_instance, objects, initialize_runs>>
  /\ UNCHANGED <<config_attrs, mainVars, db, storeVars, collectVars, snakeVars, backlogVars>>

NextSingleton == \E m \in Modules, initialize_ok \in BOOLEAN : Construct(m, initialize_ok)

SpecSingleton == Init /\ [][NextSingleton]_vars

\* C22: within one process every construction of MongoDBClient that returns
\* returns the same instance, one object at most is ever allocated, and
\* _initialize, which opens the connection, has run at most once.
C22_OneInstance ==
  /\ initialize_runs <= 1
  /\ objects <= 1
  /\ \A i, j \in 1..Len(constructions) :
       constructions[i].out.kind = "call" /\ constructions[j].out.kind = "call"
         => constructions[i].out.ret = constructions[j].out.ret

\* the class was constructed MaxConstructions times, from every module, and
\* each construction returned
C22_Witness ==
  /\ Len(constructions) = MaxConstructions
  /\ \A m \in Modules : \E i \in 1..Len(constructions) : constructions[i].by = m
  /\ \A i \in 1..Len(constructions) : constructions[i].out.kind = "call"
  /\ initialize_runs = 1

(***************************************************************************)
(* The label of a sentiment (SpecRecord).                                  *)
(***************************************************************************)
\* C26: the sentiment analyze_sentiment_finbert returns has a label among
\* negative, neutral and positive that its score determines: negative
\* exactly when the score is below 0.4, positive exactly when it is above
\* 0.6, neutral otherwise; and a text shorter than 10 characters, or one
\* with no sentence that was scored, gets score 0.5 and label neutral.
C26_LabelFromScore ==
  last.op = "analyze" =>
    LET sentiment == last.out.ret
        text == pending.text
        scorable == {i \in 1..Len(text.sentences) :
                       /\ text.sentences[i].chars >= 5
                       /\ text.sentences[i].out.kind = "call"}
    IN  /\ sentiment.label \in {"negative", "neutral", "positive"}
        /\ sentiment.label = "negative" <=> sentiment.score < NEGATIVE_BELOW
        /\ sentiment.label = "positive" <=> sentiment.score > POSITIVE_ABOVE
        /\ text.chars < 10 \/ scorable = {}
             => sentiment = [score |-> NEUTRAL_SCORE, label |-> "neutral"]

\* a text of two scored sentences, one below 0.4 and one above, whose mean is
\* the threshold 0.4 itself was analysed
C26_Witness ==
  /\ last.op = "analyze"
  /\ pending.text.chars >= 10
  /\ Len(pending.text.sentences) = 2
  /\ pending.text.sentences[1].out = Call(18)
  /\ pending.text.sentences[2].out = Call(30)
  /\ pending.text.sentences[1].chars >= 5
  /\ pending.text.sentences[2].chars >= 5
  /\ last.out.ret.score = NEGATIVE_BELOW

(***************************************************************************)
(* SpecSnake: the game loop of Snake_claude.py.  One step is one iteration *)
(* of the loop: the events of the frame, then the move.                    *)
(***************************************************************************)
\* Snake_claude.py:11, WIDTH // GRID_SIZE
GRID_WIDTH == 30
\* Snake_claude.py:12, HEIGHT // GRID_SIZE
GRID_HEIGHT == 30
\* the most iterations of the game loop
MaxFrames == 4
\* the most events pygame.event.get() returns in one iteration
MaxEvents == 2

\* Snake_claude.py:22-25
UP == <<0, -1>>
DOWN == <<0, 1>>
LEFT == <<-1, 0>>
RIGHT == <<1, 0>>

\* Snake_claude.py:105-121, the events the loop tells apart: QUIT, and
\* KEYDOWN with one of these keys
Events == {"QUIT", "K_UP", "K_DOWN", "K_LEFT", "K_RIGHT", "K_SPACE"}

\* Snake_claude.py:72-76 draws the food's cell at random among the cells the
\* snake does not cover; the model draws it among these
FoodCells == {<<16, 15>>, <<17, 15>>, <<16, 14>>, <<0, 0>>}

\* Snake_claude.py:28-32, Snake.__init__
Snake == [positions |-> << <<GRID_WIDTH \div 2, GRID_HEIGHT \div 2>> >>,
          direction |-> RIGHT, grow |-> FALSE, score |-> 0]

\* Snake_claude.py:55, (direction[0] * -1, direction[1] * -1)
Opposite(direction) == <<direction[1] * (-1), direction[2] * (-1)>>

\* Snake_claude.py:53-56, Snake.change_direction
change_direction(s, direction) ==
  IF Opposite(direction) # s.direction
  THEN [s EXCEPT !.direction = direction] ELSE s

\* Snake_claude.py:37-51, Snake.move: the snake after it, and what it returns
move(s) ==
  LET head == s.positions[1]
      new_position == <<(head[1] + s.direction[1]) % GRID_WIDTH,
                        (head[2] + s.direction[2]) % GRID_HEIGHT>>
      inserted == <<new_position>> \o s.positions
  IN  IF \E i \in 2..Len(s.positions) : s.positions[i] = new_position
      THEN [snake |-> s, ret |-> FALSE]
      ELSE IF ~s.grow
      THEN [snake |-> [s EXCEPT !.positions = SubSeq(inserted, 1, Len(inserted) - 1)],
            ret |-> TRUE]
      ELSE [snake |-> [s EXCEPT !.positions = inserted, !.grow = FALSE,
                                !.score = @ + 1],
            ret |-> TRUE]

\* Snake_claude.py:105-121, one event; g holds the locals of main, and
\* reset_food is the cell Food() draws on a restart
HandleEvent(g, event, reset_food) ==
  IF event = "QUIT" THEN [g EXCEPT !.running = "quit"]
  ELSE IF g.game_over /\ event = "K_SPACE"
  THEN [g EXCEPT !.snake = Snake, !.food = reset_food, !.game_over = FALSE,
                 !.moved = <<NoDirection, NoDirection>>]
  ELSE IF ~g.game_over
  THEN IF event = "K_UP" THEN [g EXCEPT !.snake = change_direction(@, UP)]
       ELSE IF event = "K_DOWN" THEN [g EXCEPT !.snake = change_direction(@, DOWN)]
       ELSE IF event = "K_LEFT" THEN [g EXCEPT !.snake = change_direction(@, LEFT)]
       ELSE IF event = "K_RIGHT" THEN [g EXCEPT !.snake = change_direction(@, RIGHT)]
       ELSE g
  ELSE g

\* Snake_claude.py:104, the loop over the events of the frame, in order
RECURSIVE HandleEvents(_, _, _)
HandleEvents(g, events, reset_food) ==
  IF events = <<>> THEN g
  ELSE HandleEvents(HandleEvent(g, Head(events), reset_food), Tail(events), reset_food)

\* Snake_claude.py:89-101, main up to the loop
SnakeMain ==
  /\ running = "no"
  /\ snake' = Snake
  /\ food' \in FoodCells \ {Snake.positions[1]}
  /\ game_over' = FALSE
  /\ running' = "running"
  /\ moved' = <<NoDirection, NoDirection>>
  /\ UNCHANGED <<config_attrs, mainVars, db, storeVars, collectVars, singletonVars,
               backlogVars, frame>>

\* Snake_claude.py:103-150, one iteration of the loop: the events of the
\* frame, then, unless the game is over, the move and the food
Frame(events, reset_food, new_food) ==
  /\ running = "running"
  /\ frame < MaxFrames
  /\ reset_food # Snake.positions[1]
  /\ LET g == HandleEvents([snake |-> snake, food |-> food, game_over |-> game_over,
                            running |-> running, moved |-> moved],
                           events, reset_food)
     IN  IF g.game_over
         THEN /\ snake' = g.snake
              /\ food' = g.food
              /\ game_over' = TRUE
              /\ running' = g.running
              /\ moved' = g.moved
         ELSE LET m == move(g.snake)
                  ate == m.snake.positions[1] = g.food
              IN  /\ ate => \A i \in 1..Len(m.snake.positions) :
                                m.snake.positions[i] # new_food
                  /\ snake' = IF ate THEN [m.snake EXCEPT !.grow = TRUE] ELSE m.snake
                  /\ food' = IF ate THEN new_food ELSE g.food
                  /\ game_over' = ~m.ret
                  /\ running' = g.running
                  /\ moved' = <<g.moved[2], g.snake.direction>>
  /\ frame' = frame + 1
  /\ UNCHANGED <<config_attrs, mainVars, db, storeVars, collectVars, singletonVars,
               backlogVars>>

NextSnake ==
  \/ SnakeMain
  \/ \E events \in SeqsUpTo(Events, MaxEvents), reset_food, new_food \in FoodCells :
       Frame(events, reset_food, new_food)

SpecSnake == Init /\ [][NextSnake]_vars

\* C30: whatever keys are pressed, several within one frame included, the
\* direction a move step of the snake uses is never the exact opposite of the
\* direction its previous move step used.
C30_NoReversal ==
  moved[1] # NoDirection => moved[2] # Opposite(moved[1])

(***************************************************************************)
(* FairBacklog: scoring passes over one article collection, one after the  *)
(* other and for ever, while collector runs store articles.  A scored      *)
(* article is never read again (the query asks for records without the     *)
(* field sentiment), so the collection is kept as its unscored articles    *)
(* only: one watched article, and the number of unscored articles whose    *)
(* published_at is later than the watched one's.  Every database call      *)
(* succeeds.                                                               *)
(***************************************************************************)
\* the most unscored articles later than the watched one
MaxBacklog == 102

\* data_collector.py:77, database.py:123-212: a collector run stores the
\* watched article
StoreWatched ==
  /\ backlog.watched = "absent"
  /\ backlog' = [backlog EXCEPT !.watched = "unscored"]
  /\ UNCHANGED <<config_attrs, mainVars, db, storeVars, collectVars, singletonVars,
                 snakeVars, scan>>

\* data_collector.py:71-77, database.py:123-212: a later collector run stores
\* n articles it has newly fetched, at most ARTICLES_PER_QUERY; they were
\* published after the watched article
StoreNewer(n) ==
  /\ backlog.watched # "absent"
  /\ backlog.newer + n <= MaxBacklog
  /\ backlog' = [backlog EXCEPT !.newer = @ + n]
  /\ UNCHANGED <<config_attrs, mainVars, db, storeVars, collectVars, singletonVars,
                 snakeVars, scan>>

\* sentiment_analyzer.py:211, database.py:354-357: the pass reads the
\* ANALYZE_LIMIT unscored articles published last; the watched article, the
\* oldest, is among them when fewer than ANALYZE_LIMIT are later than it
ScanRead ==
  /\ scan.pc = "idle"
  /\ scan' = [pc |-> "scoring",
              newer |-> Min(ANALYZE_LIMIT, backlog.newer),
              watched |-> backlog.watched = "unscored"
                          /\ backlog.newer < ANALYZE_LIMIT]
  /\ UNCHANGED <<config_attrs, mainVars, db, storeVars, collectVars, singletonVars,
                 snakeVars, backlog>>

\* sentiment_analyzer.py:219-221, 162-196: the next article read is scored
\* and its sentiment stored, the latest first
ScanScore ==
  /\ scan.pc = "scoring"
  /\ \/ /\ scan.newer > 0
        /\ scan' = [scan EXCEPT !.newer = @ - 1]
        /\ backlog' = [backlog EXCEPT !.newer = @ - 1]
     \/ /\ scan.newer = 0 /\ scan.watched
        /\ scan' = [scan EXCEPT !.watched = FALSE]
        /\ backlog' = [backlog EXCEPT !.watched = "scored"]
  /\ UNCHANGED <<config_attrs, mainVars, db, storeVars, collectVars, singletonVars,
                 snakeVars>>

\* sentiment_analyzer.py:223-225: every article read was scored, the pass is
\* over
ScanEnd ==
  /\ scan.pc = "scoring" /\ scan.newer = 0 /\ ~scan.watched
  /\ scan' = NoScan
  /\ UNCHANGED <<config_attrs, mainVars, db, storeVars, collectVars, singletonVars,
                 snakeVars, backlog>>

NextBacklog ==
  \/ StoreWatched
  \/ \E n \in 1..ARTICLES_PER_QUERY : StoreNewer(n)
  \/ ScanRead
  \/ ScanScore
  \/ ScanEnd

\* the passes are repeated for ever, and a pass that has started goes on;
\* nothing makes a collector run happen
FairBacklog ==
  /\ Init /\ [][NextBacklog]_vars
  /\ WF_vars(ScanRead \/ ScanScore \/ ScanEnd)

\* C29: under repeated scoring passes whose database calls all succeed, an
\* article that is stored unscored is eventually scored, also while collector
\* runs keep storing new articles between the passes.
C29_EventuallyScored ==
  (backlog.watched = "unscored") ~> (backlog.watched = "scored")
====
